---- MODULE Spec2Model ----
(***************************************************************************)
(* AutoBOM: the BOM validation and completion-prioritisation engine.       *)
(*                                                                         *)
(* Text is a sequence of one-character strings, so that trimming, case     *)
(* folding, substring search and number parsing are computed, not assumed. *)
(* A float is a record: finite values are integers counting hundredths     *)
(* (n = 150 is 1.50), and nan, +inf, -inf are separate kinds.              *)
(***************************************************************************)
EXTENDS Integers, Sequences, FiniteSets, TLC

VARIABLES df, original_columns, session_state, result, calls

vars == <<df, original_columns, session_state, result, calls>>

(***************************************************************************)
(* Bounds of the model.                                                    *)
(***************************************************************************)
MaxRows == 3
MaxHeaders == 2
MaxCalls == 2

(***************************************************************************)
(* Text primitives (Python str).                                           *)
(***************************************************************************)
UPPER == <<"A","B","C","D","E","F","G","H","I","J","K","L","M","N","O","P","Q","R","S","T","U","V","W","X","Y","Z">>
LOWER == <<"a","b","c","d","e","f","g","h","i","j","k","l","m","n","o","p","q","r","s","t","u","v","w","x","y","z">>
DIGITS == <<"0","1","2","3","4","5","6","7","8","9">>

Range(s) == {s[i] : i \in DOMAIN s}

IsUpper(c) == c \in Range(UPPER)
IsLowerCh(c) == c \in Range(LOWER)
IsDigit(c) == c \in Range(DIGITS)
IsSpace(c) == c \in {" ", "\t", "\n", "\r"}

LowerCh(c) == IF IsUpper(c) THEN LOWER[CHOOSE i \in DOMAIN UPPER : UPPER[i] = c] ELSE c

\* str.lower()
Lower(s) == [i \in DOMAIN s |-> LowerCh(s[i])]

\* str.replace(a, b) for one-character a and b
ReplaceCh(s, a, b) == [i \in DOMAIN s |-> IF s[i] = a THEN b ELSE s[i]]

RECURSIVE LStrip(_)
LStrip(s) == IF s # <<>> /\ IsSpace(Head(s)) THEN LStrip(Tail(s)) ELSE s

RECURSIVE RStrip(_)
RStrip(s) == IF s # <<>> /\ IsSpace(s[Len(s)]) THEN RStrip(SubSeq(s, 1, Len(s) - 1)) ELSE s

\* str.strip()
Strip(s) == RStrip(LStrip(s))

\* a in b, for strings
IsSubstring(a, b) ==
    \E i \in 0..(Len(b) - Len(a)) : SubSeq(b, i + 1, i + Len(a)) = a

\* sep.join(ss)
RECURSIVE Join(_, _)
Join(sep, ss) ==
    IF ss = <<>> THEN <<>>
    ELSE IF Len(ss) = 1 THEN ss[1]
    ELSE ss[1] \o sep \o Join(sep, Tail(ss))

(***************************************************************************)
(* config.py: the canonical fields.                                        *)
(***************************************************************************)
part_number == <<"p","a","r","t","_","n","u","m","b","e","r">>
description == <<"d","e","s","c","r","i","p","t","i","o","n">>
quantity == <<"q","u","a","n","t","i","t","y">>
unit_cost == <<"u","n","i","t","_","c","o","s","t">>
total_cost == <<"t","o","t","a","l","_","c","o","s","t">>
supplier == <<"s","u","p","p","l","i","e","r">>
manufacturer == <<"m","a","n","u","f","a","c","t","u","r","e","r">>
manufacturer_part_number == <<"m","a","n","u","f","a","c","t","u","r","e","r","_","p","a","r","t","_","n","u","m","b","e","r">>
lead_time_days == <<"l","e","a","d","_","t","i","m","e","_","d","a","y","s">>
category == <<"c","a","t","e","g","o","r","y">>
datasheet_url == <<"d","a","t","a","s","h","e","e","t","_","u","r","l">>
notes == <<"n","o","t","e","s">>

REQUIRED_COLUMNS == <<part_number, description, quantity>>

OPTIONAL_COLUMNS ==
    <<unit_cost, total_cost, supplier, manufacturer, manufacturer_part_number,
      lead_time_days, category, datasheet_url, notes>>

ALL_COLUMNS == REQUIRED_COLUMNS \o OPTIONAL_COLUMNS

(***************************************************************************)
(* Floats (Python float): finite values in hundredths, and the specials.   *)
(***************************************************************************)
Fin(n) == [k |-> "fin", n |-> n]
NaN == [k |-> "nan", n |-> 0]
PInf == [k |-> "inf", n |-> 1]
NInf == [k |-> "inf", n |-> -1]
ValueError == [k |-> "ValueError", n |-> 0]

IsFloat(x) == x.k \in {"fin", "nan", "inf"}

\* x < c, x > c, x = c for a float x and a finite constant c in hundredths;
\* every comparison with nan is false.
FLt(x, c) == (x.k = "fin" /\ x.n < c) \/ x = NInf
FGt(x, c) == (x.k = "fin" /\ x.n > c) \/ x = PInf
FLe(x, c) == (x.k = "fin" /\ x.n <= c) \/ x = NInf
FEq(x, c) == x.k = "fin" /\ x.n = c

DigitVal(c) == (CHOOSE i \in DOMAIN DIGITS : DIGITS[i] = c) - 1

AllDigits(s) == \A i \in DOMAIN s : IsDigit(s[i])

RECURSIVE DigitsToNat(_)
DigitsToNat(s) ==
    IF s = <<>> THEN 0
    ELSE 10 * DigitsToNat(SubSeq(s, 1, Len(s) - 1)) + DigitVal(s[Len(s)])

\* the unsigned decimal literals digits, digits.digits, digits. and .digits;
\* the model's texts carry at most two fraction digits and no exponent
ParseUnsigned(s) ==
    LET dots == {i \in DOMAIN s : s[i] = "."}
    IN  IF s = <<>> \/ Cardinality(dots) > 1 THEN ValueError
        ELSE IF dots = {} THEN
            IF AllDigits(s) THEN Fin(100 * DigitsToNat(s)) ELSE ValueError
        ELSE
            LET d == CHOOSE i \in dots : TRUE
                ip == SubSeq(s, 1, d - 1)
                fp == SubSeq(s, d + 1, Len(s))
            IN  IF ~AllDigits(ip) \/ ~AllDigits(fp) \/ (ip = <<>> /\ fp = <<>>) \/ Len(fp) > 2
                THEN ValueError
                ELSE Fin(100 * DigitsToNat(ip)
                         + (IF Len(fp) = 1 THEN 10 * DigitsToNat(fp) ELSE DigitsToNat(fp)))

FNeg(x) == IF x.k = "fin" THEN Fin(-x.n) ELSE IF x.k = "inf" THEN [k |-> "inf", n |-> -x.n] ELSE x

\* float(s) for text s: surrounding blanks dropped, optional sign, then a
\* decimal literal or inf / infinity / nan in any letter case
ParseFloat(s) ==
    LET t == Strip(s)
        signed == t # <<>> /\ Head(t) \in {"+", "-"}
        body == IF signed THEN Tail(t) ELSE t
        low == Lower(body)
        mag == IF low \in {<<"i","n","f">>, <<"i","n","f","i","n","i","t","y">>} THEN PInf
               ELSE IF low = <<"n","a","n">> THEN NaN
               ELSE ParseUnsigned(body)
    IN  IF signed /\ Head(t) = "-" THEN FNeg(mag) ELSE mag

RECURSIVE NatToDigits(_)
NatToDigits(n) ==
    IF n < 10 THEN <<DIGITS[n + 1]>>
    ELSE NatToDigits(n \div 10) \o <<DIGITS[(n % 10) + 1]>>

\* repr(x) of a float, as f"{x}" and str(x) render it
FloatRepr(x) ==
    IF x.k = "nan" THEN <<"n","a","n">>
    ELSE IF x = PInf THEN <<"i","n","f">>
    ELSE IF x = NInf THEN <<"-","i","n","f">>
    ELSE LET a == IF x.n < 0 THEN -x.n ELSE x.n
             fr == a % 100
             frac == IF fr % 10 = 0 THEN <<DIGITS[(fr \div 10) + 1]>>
                     ELSE <<DIGITS[(fr \div 10) + 1], DIGITS[(fr % 10) + 1]>>
         IN  (IF x.n < 0 THEN <<"-">> ELSE <<>>) \o NatToDigits(a \div 100) \o <<".">> \o frac

\* f"{x:.2f}" of a float
Fixed2(x) ==
    IF x.k # "fin" THEN FloatRepr(x)
    ELSE LET a == IF x.n < 0 THEN -x.n ELSE x.n
         IN  (IF x.n < 0 THEN <<"-">> ELSE <<>>) \o NatToDigits(a \div 100) \o <<".">>
             \o <<DIGITS[((a % 100) \div 10) + 1], DIGITS[(a % 10) + 1]>>

(***************************************************************************)
(* Cell values: None/NaN, text, Python int, Python float.                  *)
(***************************************************************************)
Null == [t |-> "null", s |-> <<>>, x |-> NaN]
StrVal(s) == [t |-> "str", s |-> s, x |-> NaN]
IntVal(n) == [t |-> "int", s |-> <<>>, x |-> Fin(100 * n)]
FloatVal(x) == [t |-> "float", s |-> <<>>, x |-> x]

\* pd.isna / pd.notna of a scalar
isna(v) == v.t = "null"
notna(v) == ~isna(v)

\* float(value)
ToFloat(v) == IF v.t = "str" THEN ParseFloat(v.s) ELSE v.x

\* int(x) of a float: nan raises ValueError, an infinity raises OverflowError
ToInt(x) ==
    IF x.k = "nan" THEN ValueError
    ELSE IF x.k = "inf" THEN [k |-> "OverflowError", n |-> 0]
    ELSE Fin(IF x.n >= 0 THEN 100 * (x.n \div 100) ELSE -(100 * ((-x.n) \div 100)))

\* str(value)
ToStr(v) ==
    IF v.t = "str" THEN v.s
    ELSE IF v.t = "null" THEN <<"n","a","n">>
    ELSE IF v.t = "int" THEN
        (IF v.x.n < 0 THEN <<"-">> ELSE <<>>) \o NatToDigits((IF v.x.n < 0 THEN -v.x.n ELSE v.x.n) \div 100)
    ELSE FloatRepr(v.x)

\* the value is null or its trimmed string form is empty
IsBlank(v) == isna(v) \/ Strip(ToStr(v)) = <<>>

\* equality of cell values as pandas' duplicated() sees it: 10 and 10.0 are
\* the same key, "10" is another one
SameKey(a, b) ==
    IF a.t = "str" \/ b.t = "str" THEN a.t = b.t /\ a.s = b.s
    ELSE IF a.t = "null" \/ b.t = "null" THEN a.t = b.t
    ELSE a.x = b.x

(***************************************************************************)
(* A row (pd.Series): index is the sequence of column labels, values the   *)
(* cells at the same positions.  A label may occur more than once.         *)
(***************************************************************************)
Positions(labels, col) == {i \in DOMAIN labels : labels[i] = col}

InIndex(row, col) == Positions(row.index, col) # {}

\* row[col] is a scalar only when the label is unique; otherwise it is a
\* Series, whose truth value raises ValueError
IsScalarAt(row, col) == Cardinality(Positions(row.index, col)) = 1

Cell(row, col) == row.values[CHOOSE i \in Positions(row.index, col) : TRUE]

(***************************************************************************)
(* bom_validator.py: field rules.  A rule returns None, (level, message)   *)
(* or raises.                                                              *)
(***************************************************************************)
None == [level |-> "none", fmt |-> "", args |-> <<>>]
Ret(level, fmt, args) == [level |-> level, fmt |-> fmt, args |-> args]
Raise(exc) == [level |-> "raise", fmt |-> exc, args |-> <<>>]

IsPartNumberChar(c) == IsUpper(c) \/ IsLowerCh(c) \/ IsDigit(c) \/ c \in {"-", "_", "."}

\* the rule with the character test ahead of the two length tests
_validate_part_number_chars_first(value, row_index, row) ==
    LET v == Strip(ToStr(value))
    IN  IF ~(\A i \in DOMAIN v : IsPartNumberChar(v[i]))
        THEN Ret("warnings", "Part number '{}' contains unusual characters", <<v>>)
        ELSE IF Len(v) < 2 THEN Ret("warnings", "Part number '{}' seems too short", <<v>>)
        ELSE IF Len(v) > 50 THEN Ret("warnings", "Part number '{}' seems too long", <<v>>)
        ELSE None

_validate_part_number(value, row_index, row) ==
    LET v == Strip(ToStr(value))
    IN  IF Len(v) < 2 THEN Ret("warnings", "Part number '{}' seems too short", <<v>>)
        ELSE IF Len(v) > 50 THEN Ret("warnings", "Part number '{}' seems too long", <<v>>)
        ELSE IF ~(\A i \in DOMAIN v : IsPartNumberChar(v[i]))
             THEN Ret("warnings", "Part number '{}' contains unusual characters", <<v>>)
        ELSE None

_validate_description(value, row_index, row) ==
    LET v == Strip(ToStr(value))
    IN  IF Len(v) < 5 THEN Ret("warnings", "Description '{}' seems too short", <<v>>)
        ELSE IF Len(v) > 200
             THEN Ret("warnings", "Description is very long ({} characters)", <<NatToDigits(Len(v))>>)
        ELSE None

_validate_quantity(value, row_index, row) ==
    LET qty == ToFloat(value)
        invalid == Ret("errors", "Quantity '{}' is not a valid number", <<ToStr(value)>>)
    IN  IF qty = ValueError THEN invalid
        ELSE IF FLe(qty, 0) THEN Ret("errors", "Quantity must be positive, got {}", <<FloatRepr(qty)>>)
        ELSE IF ToInt(qty) = ValueError THEN invalid
        ELSE IF ~IsFloat(ToInt(qty)) THEN Raise(ToInt(qty).k)
        ELSE IF qty # ToInt(qty) /\ FGt(qty, 100)
             THEN Ret("warnings", "Fractional quantity {} - is this intentional?", <<FloatRepr(qty)>>)
        ELSE IF FGt(qty, 1000000)
             THEN Ret("warnings", "Very large quantity {} - please verify", <<FloatRepr(qty)>>)
        ELSE None

\* the rule with its upper threshold inclusive: 10000 already warns
_validate_unit_cost_from_10000(value, row_index, row) ==
    LET cost == ToFloat(value)
    IN  IF cost = ValueError
        THEN Ret("errors", "Unit cost '{}' is not a valid number", <<ToStr(value)>>)
        ELSE IF FLt(cost, 0) THEN Ret("errors", "Unit cost cannot be negative, got {}", <<FloatRepr(cost)>>)
        ELSE IF FEq(cost, 0) THEN Ret("warnings", "Unit cost is zero - is this correct?", <<>>)
        ELSE IF FGt(cost, 1000000) \/ FEq(cost, 1000000)
             THEN Ret("warnings", "Very high unit cost ${} - please verify", <<FloatRepr(cost)>>)
        ELSE None

_validate_unit_cost(value, row_index, row) ==
    LET cost == ToFloat(value)
    IN  IF cost = ValueError
        THEN Ret("errors", "Unit cost '{}' is not a valid number", <<ToStr(value)>>)
        ELSE IF FLt(cost, 0) THEN Ret("errors", "Unit cost cannot be negative, got {}", <<FloatRepr(cost)>>)
        ELSE IF FEq(cost, 0) THEN Ret("warnings", "Unit cost is zero - is this correct?", <<>>)
        ELSE IF FGt(cost, 1000000)
             THEN Ret("warnings", "Very high unit cost ${} - please verify", <<FloatRepr(cost)>>)
        ELSE None

_validate_total_cost(value, row_index, row) ==
    LET cost == ToFloat(value)
    IN  IF cost = ValueError
        THEN Ret("errors", "Total cost '{}' is not a valid number", <<ToStr(value)>>)
        ELSE IF FLt(cost, 0) THEN Ret("errors", "Total cost cannot be negative, got {}", <<FloatRepr(cost)>>)
        ELSE None

_validate_supplier(value, row_index, row) ==
    LET v == Strip(ToStr(value))
    IN  IF Len(v) < 2 THEN Ret("warnings", "Supplier name '{}' seems too short", <<v>>) ELSE None

_validate_manufacturer(value, row_index, row) ==
    LET v == Strip(ToStr(value))
    IN  IF Len(v) < 2 THEN Ret("warnings", "Manufacturer name '{}' seems too short", <<v>>) ELSE None

_validate_manufacturer_part_number(value, row_index, row) ==
    LET v == Strip(ToStr(value))
    IN  IF Len(v) < 2 THEN Ret("warnings", "Manufacturer part number '{}' seems too short", <<v>>)
        ELSE None

_validate_lead_time(value, row_index, row) ==
    LET days == ToFloat(value)
    IN  IF days = ValueError
        THEN Ret("errors", "Lead time '{}' is not a valid number", <<ToStr(value)>>)
        ELSE IF FLt(days, 0) THEN Ret("errors", "Lead time cannot be negative, got {}", <<FloatRepr(days)>>)
        ELSE IF FGt(days, 36500)
             THEN Ret("warnings", "Very long lead time ({} days) - please verify", <<FloatRepr(days)>>)
        ELSE None

common_categories ==
    <<<<"R","e","s","i","s","t","o","r">>,
      <<"C","a","p","a","c","i","t","o","r">>,
      <<"I","n","d","u","c","t","o","r">>,
      <<"D","i","o","d","e">>,
      <<"T","r","a","n","s","i","s","t","o","r">>,
      <<"I","n","t","e","g","r","a","t","e","d"," ","C","i","r","c","u","i","t">>,
      <<"I","C">>,
      <<"C","o","n","n","e","c","t","o","r">>,
      <<"S","w","i","t","c","h">>,
      <<"L","E","D">>,
      <<"C","r","y","s","t","a","l">>,
      <<"O","s","c","i","l","l","a","t","o","r">>,
      <<"T","r","a","n","s","f","o","r","m","e","r">>,
      <<"R","e","l","a","y">>,
      <<"F","u","s","e">>,
      <<"B","a","t","t","e","r","y">>,
      <<"C","a","b","l","e">>,
      <<"P","C","B">>,
      <<"M","e","c","h","a","n","i","c","a","l">>,
      <<"H","a","r","d","w","a","r","e">>>>

_validate_category(value, row_index, row) ==
    LET v == Strip(ToStr(value))
    IN  IF Len(v) < 2 THEN Ret("warnings", "Category '{}' seems too short", <<v>>)
        ELSE IF ~(\E i \in DOMAIN common_categories :
                     IsSubstring(Lower(common_categories[i]), Lower(v)))
             THEN Ret("info", "Category '{}' is not a common electronics category", <<v>>)
        ELSE None

_validate_notes(value, row_index, row) ==
    LET v == Strip(ToStr(value))
    IN  IF Len(v) > 500
        THEN Ret("warnings", "Notes are very long ({} characters)", <<NatToDigits(Len(v))>>)
        ELSE None


(***************************************************************************)
(* _validate_url: the pattern, matched without regard to letter case, as   *)
(* sets of positions (number of characters consumed so far).               *)
(***************************************************************************)
IsAlnum(c) == IsUpper(c) \/ IsLowerCh(c) \/ IsDigit(c)
IsLetter(c) == IsUpper(c) \/ IsLowerCh(c)

\* ^https?://
SchemeEnds(s) ==
    LET low == Lower(s)
    IN  {q \in {7, 8} : q <= Len(s) /\
            SubSeq(low, 1, q) = (IF q = 7 THEN <<"h","t","t","p",":","/","/">>
                                 ELSE <<"h","t","t","p","s",":","/","/">>)}

\* [A-Z0-9](?:[A-Z0-9-]{0,61}[A-Z0-9])?\.
LabelDotEnds(s, p) ==
    {q + 1 : q \in {q \in (p + 1)..(Len(s) - 1) :
        /\ q - p <= 63
        /\ IsAlnum(s[p + 1]) /\ IsAlnum(s[q])
        /\ \A i \in (p + 1)..q : IsAlnum(s[i]) \/ s[i] = "-"
        /\ s[q + 1] = "."}}

\* (?: label \. )+
RECURSIVE LabelsEnds(_, _)
LabelsEnds(s, P) ==
    IF P = {} THEN {}
    ELSE LET N == UNION {LabelDotEnds(s, p) : p \in P} IN N \cup LabelsEnds(s, N)

\* [A-Z]{2,6}\.?
TldEnds(s, p) ==
    LET E == {q \in (p + 2)..(p + 6) : q <= Len(s) /\ \A i \in (p + 1)..q : IsLetter(s[i])}
    IN  E \cup {q + 1 : q \in {q \in E : q < Len(s) /\ s[q + 1] = "."}}

\* \d{1,3}
OctetEnds(s, P) ==
    UNION {{q \in (p + 1)..(p + 3) : q <= Len(s) /\ \A i \in (p + 1)..q : IsDigit(s[i])} : p \in P}

DotEnds(s, P) == {p + 1 : p \in {p \in P : p < Len(s) /\ s[p + 1] = "."}}

\* \d{1,3}\.\d{1,3}\.\d{1,3}\.\d{1,3}
IPv4Ends(s, p) ==
    OctetEnds(s, DotEnds(s, OctetEnds(s, DotEnds(s, OctetEnds(s, DotEnds(s, OctetEnds(s, {p})))))))

LocalhostEnds(s, p) ==
    {q \in {p + 9} : q <= Len(s) /\ SubSeq(Lower(s), p + 1, q) = <<"l","o","c","a","l","h","o","s","t">>}

HostEnds(s, p) ==
    UNION {TldEnds(s, q) : q \in LabelsEnds(s, {p})} \cup LocalhostEnds(s, p) \cup IPv4Ends(s, p)

\* (?::\d+)?
PortEnds(s, p) ==
    {p} \cup {q \in (p + 2)..Len(s) : s[p + 1] = ":" /\ \A i \in (p + 2)..q : IsDigit(s[i])}

\* (?:/?|[/?]\S+)$
PathMatches(s, p) ==
    \/ p = Len(s)
    \/ p = Len(s) - 1 /\ s[p + 1] = "/"
    \/ /\ p <= Len(s) - 2
       /\ s[p + 1] \in {"/", "?"}
       /\ \A i \in (p + 2)..Len(s) : ~IsSpace(s[i])

url_pattern_match(s) ==
    \E p0 \in SchemeEnds(s) : \E p1 \in HostEnds(s, p0) : \E p2 \in PortEnds(s, p1) :
        PathMatches(s, p2)

_validate_url(value, row_index, row) ==
    LET v == Strip(ToStr(value))
    IN  IF ~url_pattern_match(v) THEN Ret("warnings", "URL '{}' may not be valid", <<v>>) ELSE None

\* self.validation_rules: the rule of a column
validation_rules(column, value, row_index, row) ==
    CASE column = part_number -> _validate_part_number(value, row_index, row)
      [] column = description -> _validate_description(value, row_index, row)
      [] column = quantity -> _validate_quantity(value, row_index, row)
      [] column = unit_cost -> _validate_unit_cost(value, row_index, row)
      [] column = total_cost -> _validate_total_cost(value, row_index, row)
      [] column = supplier -> _validate_supplier(value, row_index, row)
      [] column = manufacturer -> _validate_manufacturer(value, row_index, row)
      [] column = manufacturer_part_number -> _validate_manufacturer_part_number(value, row_index, row)
      [] column = lead_time_days -> _validate_lead_time(value, row_index, row)
      [] column = category -> _validate_category(value, row_index, row)
      [] column = datasheet_url -> _validate_url(value, row_index, row)
      [] column = notes -> _validate_notes(value, row_index, row)


(***************************************************************************)
(* The schema slot (st.session_state) read by the validator and scorer.    *)
(***************************************************************************)
_get_required_columns ==
    IF "app_required_columns" \in session_state.keys
    THEN session_state.app_required_columns
    ELSE REQUIRED_COLUMNS

\* a scorer that reads the optional list the open panel is showing
_get_optional_columns_of_panel ==
    IF "custom_optional_columns" \in session_state.keys
    THEN session_state.custom_optional_columns
    ELSE OPTIONAL_COLUMNS

_get_optional_columns ==
    IF "app_optional_columns" \in session_state.keys
    THEN session_state.app_optional_columns
    ELSE OPTIONAL_COLUMNS

(***************************************************************************)
(* validate_row and the cost cross-check.                                  *)
(***************************************************************************)
\* quantity * unit_cost, in ten-thousandths when finite
FMul(a, b) ==
    IF a.k = "nan" \/ b.k = "nan" THEN NaN
    ELSE IF a.k = "inf" \/ b.k = "inf" THEN
        IF a.n = 0 \/ b.n = 0 THEN NaN
        ELSE IF (a.n > 0) = (b.n > 0) THEN PInf ELSE NInf
    ELSE Fin(a.n * b.n)

\* the comparison with >= in place of >
GapExceedsInclusive(total, expected, tol) ==
    IF total.k = "nan" \/ expected.k = "nan" THEN FALSE
    ELSE IF total.k = "inf" /\ expected.k = "inf" THEN total.n # expected.n
    ELSE IF total.k = "inf" \/ expected.k = "inf" THEN TRUE
    ELSE LET d == 100 * total.n - expected.n
         IN  (IF d < 0 THEN -d ELSE d) >= tol

\* abs(total_cost - expected_total) > tolerance, total in hundredths,
\* expected in ten-thousandths, tol in ten-thousandths
GapExceeds(total, expected, tol) ==
    IF total.k = "nan" \/ expected.k = "nan" THEN FALSE
    ELSE IF total.k = "inf" /\ expected.k = "inf" THEN total.n # expected.n
    ELSE IF total.k = "inf" \/ expected.k = "inf" THEN TRUE
    ELSE LET d == 100 * total.n - expected.n
         IN  (IF d < 0 THEN -d ELSE d) > tol

\* f"{x:.2f}" of a value in ten-thousandths (ties to even)
Fixed2Of4(x) ==
    IF x.k # "fin" THEN FloatRepr(x)
    ELSE LET a == IF x.n < 0 THEN -x.n ELSE x.n
             q == a \div 100
             r == a % 100
             h == IF r > 50 \/ (r = 50 /\ q % 2 = 1) THEN q + 1 ELSE q
         IN  Fixed2(Fin(IF x.n < 0 THEN -h ELSE h))

tolerance == 100

\* a cross-check that reports an operand float() rejects as an error
_validate_cost_consistency_reporting(row, row_index) ==
    LET cols == <<quantity, unit_cost, total_cost>>
    IN  \* all(...) is False at the first absent or null cell; a repeated label
        \* makes pd.notna return a Series, whose truth value raises the
        \* ValueError that the except clause swallows
        IF ~(\A i \in DOMAIN cols : /\ InIndex(row, cols[i]) /\ IsScalarAt(row, cols[i])
                                     /\ notna(Cell(row, cols[i])))
        THEN None
        ELSE LET q == ToFloat(Cell(row, quantity))
                 u == ToFloat(Cell(row, unit_cost))
                 t == ToFloat(Cell(row, total_cost))
                 expected_total == FMul(q, u)
             IN  IF q = ValueError \/ u = ValueError \/ t = ValueError
                 THEN Ret("errors", "Cost fields are not numeric", <<>>)
                 ELSE IF GapExceeds(t, expected_total, tolerance)
                 THEN Ret("warnings",
                          "Total cost ${} doesn't match quantity x unit cost ({} x ${} = ${})",
                          <<Fixed2(t), FloatRepr(q), Fixed2(u), Fixed2Of4(expected_total)>>)
                 ELSE None

\* lines 235-252
_validate_cost_consistency(row, row_index) ==
    LET cols == <<quantity, unit_cost, total_cost>>
    IN  \* all(...) is False at the first absent or null cell; a repeated label
        \* makes pd.notna return a Series, whose truth value raises the
        \* ValueError that the except clause swallows
        IF ~(\A i \in DOMAIN cols : /\ InIndex(row, cols[i]) /\ IsScalarAt(row, cols[i])
                                     /\ notna(Cell(row, cols[i])))
        THEN None
        ELSE LET q == ToFloat(Cell(row, quantity))
                 u == ToFloat(Cell(row, unit_cost))
                 t == ToFloat(Cell(row, total_cost))
                 expected_total == FMul(q, u)
             IN  IF q = ValueError \/ u = ValueError \/ t = ValueError THEN None
                 ELSE IF GapExceeds(t, expected_total, tolerance)
                 THEN Ret("warnings",
                          "Total cost ${} doesn't match quantity x unit cost ({} x ${} = ${})",
                          <<Fixed2(t), FloatRepr(q), Fixed2(u), Fixed2Of4(expected_total)>>)
                 ELSE None

\* a loop that hands every non-null value to its rule, blank or not
FieldCheckUntrimmed(row, row_index, column) ==
    IF ~InIndex(row, column) THEN None
    ELSE IF ~IsScalarAt(row, column) THEN Raise("ValueError")
    ELSE LET value == Cell(row, column)
         IN  IF notna(value)
             THEN validation_rules(column, value, row_index, row)
             ELSE None

\* lines 72-86 for one column
FieldCheck(row, row_index, column) ==
    IF ~InIndex(row, column) THEN None
    ELSE IF ~IsScalarAt(row, column) THEN Raise("ValueError")
    ELSE LET value == Cell(row, column)
         IN  IF notna(value) /\ Strip(ToStr(value)) # <<>>
             THEN validation_rules(column, value, row_index, row)
             ELSE None

\* lines 91-101 for one column: "raise", "missing" or "ok"
RequiredCheck(row, req_col) ==
    IF ~InIndex(row, req_col) THEN "ok"
    ELSE IF ~IsScalarAt(row, req_col) THEN "raise"
    ELSE IF isna(Cell(row, req_col)) \/ Strip(ToStr(Cell(row, req_col))) = <<>> THEN "missing"
    ELSE "ok"

RequiredIssue(row_index, req_col) ==
    [type |-> "missing_required", column |-> req_col,
     message |-> [fmt |-> "Required field '{}' is empty", args |-> <<req_col>>],
     row |-> <<row_index>>, value |-> Null]

Min(S) == CHOOSE i \in S : \A j \in S : i <= j

\* the indices of a sequence whose element satisfies a test, in order
Hits(flags) == SelectSeq([i \in DOMAIN flags |-> i], LAMBDA i : flags[i])

\* the issues of the field rules that came out at one level (lines 78-86)
FieldIssues(row, row_index, checks, hit) ==
    [k \in DOMAIN hit |->
        [type |-> "field_validation", column |-> ALL_COLUMNS[hit[k]],
         message |-> [fmt |-> checks[hit[k]].fmt, args |-> checks[hit[k]].args],
         row |-> <<row_index>>, value |-> Cell(row, ALL_COLUMNS[hit[k]])]]

FieldIssuesAt(row, row_index, checks, level) ==
    FieldIssues(row, row_index, checks, Hits([i \in DOMAIN checks |-> checks[i].level = level]))

\* the errors of the required fields that are empty (lines 91-101)
MissingIssues(row_index, required_cols, hit) ==
    [k \in DOMAIN hit |-> RequiredIssue(row_index, required_cols[hit[k]])]

\* the issue of the cost cross-check, if it came out at this level (lines 104-112)
CostIssuesAt(row_index, cost_validation, level) ==
    IF cost_validation.level = level
    THEN <<[type |-> "cost_consistency", column |-> total_cost,
            message |-> [fmt |-> cost_validation.fmt, args |-> cost_validation.args],
            row |-> <<row_index>>, value |-> Null]>>
    ELSE <<>>

\* the three buckets, or the first exception of the two loops
RowResults(row, row_index, required_cols, checks, reqs, cost_validation, raisedF, raisedR) ==
    IF raisedF # {}
    THEN [exc |-> checks[Min(raisedF)].fmt, errors |-> <<>>, warnings |-> <<>>, info |-> <<>>]
    ELSE IF raisedR # {}
    THEN [exc |-> "ValueError", errors |-> <<>>, warnings |-> <<>>, info |-> <<>>]
    ELSE [exc |-> "none",
          errors |-> FieldIssuesAt(row, row_index, checks, "errors")
                     \o MissingIssues(row_index, required_cols,
                                      Hits([i \in DOMAIN reqs |-> reqs[i] = "missing"]))
                     \o CostIssuesAt(row_index, cost_validation, "errors"),
          warnings |-> FieldIssuesAt(row, row_index, checks, "warnings")
                       \o CostIssuesAt(row_index, cost_validation, "warnings"),
          info |-> FieldIssuesAt(row, row_index, checks, "info")
                   \o CostIssuesAt(row_index, cost_validation, "info")]

RowChecked(row, row_index, required_cols, checks, reqs) ==
    RowResults(row, row_index, required_cols, checks, reqs,
               _validate_cost_consistency(row, row_index),
               {i \in DOMAIN checks : checks[i].level = "raise"},
               {i \in DOMAIN reqs : reqs[i] = "raise"})

RowWith(row, row_index, required_cols) ==
    RowChecked(row, row_index, required_cols,
               [i \in DOMAIN ALL_COLUMNS |-> FieldCheck(row, row_index, ALL_COLUMNS[i])],
               [i \in DOMAIN required_cols |-> RequiredCheck(row, required_cols[i])])

validate_row(row, row_index) == RowWith(row, row_index, _get_required_columns)

(***************************************************************************)
(* A dataset (pd.DataFrame): columns is the sequence of labels, index the  *)
(* sequence of row labels, data the rows, each a sequence of cells aligned *)
(* with columns.                                                           *)
(***************************************************************************)
RowAt(d, i) == [index |-> d.columns, values |-> d.data[i]]

InColumns(d, col) == Positions(d.columns, col) # {}

Column(d, col) ==
    LET p == CHOOSE i \in Positions(d.columns, col) : TRUE
    IN  [i \in DOMAIN d.data |-> d.data[i][p]]

\* Series.duplicated(keep=False): True for every occurrence of a repeated key
duplicatedKeepNone(col) == [i \in DOMAIN col |-> \E j \in DOMAIN col \ {i} : SameKey(col[j], col[i])]

\* Series.duplicated(): True for every occurrence of a key after its first
duplicated(col) == [i \in DOMAIN col |-> \E j \in 1..(i - 1) : SameKey(col[j], col[i])]

\* pd.to_numeric(series, errors='coerce'), as floats; nan where it fails
to_numeric(col) ==
    [i \in DOMAIN col |->
        IF col[i].t = "null" THEN NaN
        ELSE IF ToFloat(col[i]) = ValueError THEN NaN
        ELSE ToFloat(col[i])]

RECURSIVE SumSeq(_)
SumSeq(s) == IF s = <<>> THEN 0 ELSE Head(s) + SumSeq(Tail(s))

\* the comparison of the two statistics with >= in place of >
HighVarianceInclusive(costs) ==
    LET xs == SelectSeq(costs, LAMBDA x : x.k # "nan")
        n == Len(xs)
    IN  IF n < 2 \/ (\E i \in DOMAIN xs : xs[i].k = "inf") THEN FALSE
        ELSE LET S == SumSeq([i \in DOMAIN xs |-> xs[i].n])
                 Q == SumSeq([i \in DOMAIN xs |-> xs[i].n * xs[i].n])
             IN  IF S < 0 THEN TRUE
                 ELSE n * (n * Q - S * S) >= 4 * (n - 1) * S * S

\* costs.std() > costs.mean() * 2 over the non-nan entries (sample standard
\* deviation); nan on either side makes the comparison false
HighVariance(costs) ==
    LET xs == SelectSeq(costs, LAMBDA x : x.k # "nan")
        n == Len(xs)
    IN  IF n < 2 \/ (\E i \in DOMAIN xs : xs[i].k = "inf") THEN FALSE
        ELSE LET S == SumSeq([i \in DOMAIN xs |-> xs[i].n])
                 Q == SumSeq([i \in DOMAIN xs |-> xs[i].n * xs[i].n])
             IN  IF S < 0 THEN TRUE
                 ELSE n * (n * Q - S * S) > 4 * (n - 1) * S * S

\* lines 257-266: one warning per row that repeats an earlier non-null key
DuplicateWarnings(d, pn, dupRows) ==
    [k \in DOMAIN dupRows |->
        [type |-> "duplicate_part", column |-> part_number,
         message |-> [fmt |-> "Duplicate part number '{}'", args |-> <<ToStr(pn[dupRows[k]])>>],
         row |-> <<d.index[dupRows[k]]>>, value |-> pn[dupRows[k]]]]

DuplicatesOf(d, pn, dup) == DuplicateWarnings(d, pn, Hits([i \in DOMAIN pn |-> dup[i] /\ notna(pn[i])]))

\* lines 268-277
VarianceWarnings(d) ==
    IF InColumns(d, unit_cost) /\ HighVariance(to_numeric(Column(d, unit_cost)))
    THEN <<[type |-> "cost_variance", column |-> unit_cost,
            message |-> [fmt |-> "High variance in unit costs - please review for outliers",
                         args |-> <<>>],
            row |-> <<>>, value |-> Null]>>
    ELSE <<>>

_check_data_consistency(d) ==
    (IF InColumns(d, part_number)
     THEN DuplicatesOf(d, Column(d, part_number), duplicated(Column(d, part_number)))
     ELSE <<>>)
    \o VarianceWarnings(d)

MissingColumnIssue(column) ==
    [type |-> "missing_column", column |-> column,
     message |-> [fmt |-> "Required column '{}' is missing", args |-> <<column>>],
     row |-> <<>>]

RECURSIVE Flatten(_)
Flatten(ss) == IF ss = <<>> THEN <<>> ELSE Head(ss) \o Flatten(Tail(ss))

\* a report whose errors bucket takes the errors of the rows first
FrameResultsRowsFirst(absent, rows, raised, consistency_issues) ==
    IF raised # {}
    THEN [exc |-> rows[Min(raised)].exc, errors |-> <<>>, warnings |-> <<>>, info |-> <<>>]
    ELSE [exc |-> "none",
          errors |-> Flatten([i \in DOMAIN rows |-> rows[i].errors])
                     \o [k \in DOMAIN absent |-> MissingColumnIssue(absent[k])],
          warnings |-> Flatten([i \in DOMAIN rows |-> rows[i].warnings]) \o consistency_issues,
          info |-> Flatten([i \in DOMAIN rows |-> rows[i].info])]

\* the report, or the exception of the first row whose validation raised
FrameResults(absent, rows, raised, consistency_issues) ==
    IF raised # {}
    THEN [exc |-> rows[Min(raised)].exc, errors |-> <<>>, warnings |-> <<>>, info |-> <<>>]
    ELSE [exc |-> "none",
          errors |-> [k \in DOMAIN absent |-> MissingColumnIssue(absent[k])]
                     \o Flatten([i \in DOMAIN rows |-> rows[i].errors]),
          warnings |-> Flatten([i \in DOMAIN rows |-> rows[i].warnings]) \o consistency_issues,
          info |-> Flatten([i \in DOMAIN rows |-> rows[i].info])]

FrameChecked(absent, rows, consistency_issues) ==
    FrameResults(absent, rows, {i \in DOMAIN rows : rows[i].exc # "none"}, consistency_issues)

\* a validator that also takes a column whose cells are all null or blank
\* for an absent one
FrameWithBlankAsAbsent(d, required_cols) ==
    FrameChecked(SelectSeq(required_cols,
                           LAMBDA c : ~InColumns(d, c)
                                      \/ \A i \in DOMAIN d.data : isna(Cell(RowAt(d, i), c))),
                 [i \in DOMAIN d.data |-> RowWith(RowAt(d, i), d.index[i], required_cols)],
                 _check_data_consistency(d))

FrameWith(d, required_cols) ==
    FrameChecked(SelectSeq(required_cols, LAMBDA c : ~InColumns(d, c)),
                 [i \in DOMAIN d.data |-> RowWith(RowAt(d, i), d.index[i], required_cols)],
                 _check_data_consistency(d))

validate_dataframe(d) == FrameWith(d, _get_required_columns)

(***************************************************************************)
(* get_completion_priority.                                                *)
(***************************************************************************)
\* lines 293 / 298: the column exists and its cell is null or blank
IsMissingIn(row, col) ==
    InIndex(row, col) /\ (isna(Cell(row, col)) \/ Strip(ToStr(Cell(row, col))) = <<>>)

\* sorted(xs, key=lambda x: x[2], reverse=True): stable, highest score first
\* an insertion that puts x before the entries of equal score
RECURSIVE InsertBeforeEqual(_, _)
InsertBeforeEqual(sorted, x) ==
    IF sorted = <<>> THEN <<x>>
    ELSE IF Head(sorted)[3] > x[3] THEN <<Head(sorted)>> \o InsertBeforeEqual(Tail(sorted), x)
    ELSE <<x>> \o sorted

RECURSIVE InsertDesc(_, _)
InsertDesc(sorted, x) ==
    IF sorted = <<>> THEN <<x>>
    ELSE IF Head(sorted)[3] >= x[3] THEN <<Head(sorted)>> \o InsertDesc(Tail(sorted), x)
    ELSE <<x>> \o sorted

RECURSIVE SortedDesc(_)
SortedDesc(xs) ==
    IF xs = <<>> THEN <<>>
    ELSE InsertDesc(SortedDesc(SubSeq(xs, 1, Len(xs) - 1)), xs[Len(xs)])

MissingPrefix == <<"M","i","s","s","i","n","g",":"," ">>

PriorityOf(row, idx) ==
    LET required_cols == _get_required_columns
        optional_cols == _get_optional_columns
        mr == SelectSeq(required_cols, LAMBDA c : IsMissingIn(row, c))
        mo == SelectSeq(optional_cols, LAMBDA c : IsMissingIn(row, c))
        missing_fields == mr \o mo
        missing_score == 10 * Len(mr) + 1 * Len(mo)
    IN  <<idx, MissingPrefix \o Join(<<",", " ">>, missing_fields), missing_score>>

get_completion_priority(d) ==
    LET cols == _get_required_columns \o _get_optional_columns
        all == [i \in DOMAIN d.data |-> PriorityOf(RowAt(d, i), d.index[i])]
        priorities == SelectSeq(all, LAMBDA p : p[3] > 0)
    IN  IF d.data # <<>> /\ \E i \in DOMAIN cols : InColumns(d, cols[i]) /\
                                Cardinality(Positions(d.columns, cols[i])) > 1
        THEN [exc |-> "ValueError", priorities |-> <<>>]
        ELSE [exc |-> "none", priorities |-> SortedDesc(priorities)]

(***************************************************************************)
(* csv_handler.py: get_column_mapping_suggestions.                         *)
(***************************************************************************)
Normalize(col) == ReplaceCh(ReplaceCh(Lower(col), " ", "_"), "-", "_")

\* the test without its second half: only target_col in df_col
HeaderContainsTarget(target_col, df_col) == IsSubstring(target_col, df_col)

HeaderMatches(target_col, df_col) ==
    IsSubstring(target_col, df_col) \/ IsSubstring(df_col, target_col)

get_column_mapping_suggestions(headers) ==
    LET df_columns_lower == [i \in DOMAIN headers |-> Normalize(headers[i])]
        hits(t) == {i \in DOMAIN headers : HeaderMatches(t, df_columns_lower[i])}
        matched == {t \in Range(ALL_COLUMNS) : hits(t) # {}}
    IN  [t \in matched |-> headers[Min(hits(t))]]


(***************************************************************************)
(* csv_handler.py: apply_column_mapping.  A mapping is the dict in its     *)
(* insertion order, a sequence of <<canonical field, header>> pairs; the   *)
(* empty header is the selectbox's "" option.                              *)
(***************************************************************************)
\* the same dict when a header named by several fields keeps the first
rename_dict_first(column_mapping) ==
    [v \in {column_mapping[i][2] : i \in {j \in DOMAIN column_mapping : column_mapping[j][2] # <<>>}} |->
        column_mapping[CHOOSE i \in DOMAIN column_mapping :
                          /\ column_mapping[i][2] = v
                          /\ \A j \in DOMAIN column_mapping : column_mapping[j][2] = v => i <= j][1]]

\* line 44: {v: k for k, v in column_mapping.items() if v}; a header named
\* by several fields keeps the last of them
rename_dict(column_mapping) ==
    [v \in {column_mapping[i][2] : i \in {j \in DOMAIN column_mapping : column_mapping[j][2] # <<>>}} |->
        column_mapping[CHOOSE i \in DOMAIN column_mapping :
                          /\ column_mapping[i][2] = v
                          /\ \A j \in DOMAIN column_mapping : column_mapping[j][2] = v => j <= i][1]]

\* line 45: df.rename(columns=rename_dict)
Renamed(columns, renames) ==
    [i \in DOMAIN columns |-> IF columns[i] \in DOMAIN renames THEN renames[columns[i]] ELSE columns[i]]

\* the same with a null in place of "" in the appended columns
WithCanonicalColumnsNull(d, columns, created) ==
    [columns |-> columns \o created,
     index |-> d.index,
     data |-> [i \in DOMAIN d.data |-> d.data[i] \o [k \in DOMAIN created |-> Null]]]

\* lines 47-49: every canonical field that is no column yet is appended,
\* holding "" in every row
WithCanonicalColumns(d, columns, created) ==
    [columns |-> columns \o created,
     index |-> d.index,
     data |-> [i \in DOMAIN d.data |-> d.data[i] \o [k \in DOMAIN created |-> StrVal(<<>>)]]]

Mapped(d, columns) ==
    WithCanonicalColumns(d, columns, SelectSeq(ALL_COLUMNS, LAMBDA c : c \notin Range(columns)))

\* the dataset apply_column_mapping leaves in self.df (it then returns True)
apply_column_mapping(d, column_mapping) == Mapped(d, Renamed(d.columns, rename_dict(column_mapping)))

(***************************************************************************)
(* csv_handler.py: update_row.  updates is the dict as the sequence of its *)
(* (column, value) items.                                                  *)
(***************************************************************************)
\* line 111, self.df.at[index, col] = value: the cell is set; a label that is
\* no row of the dataset is appended as a new row, null in the other columns
SetAt(d, index, col, value) ==
    IF index \in Range(d.index)
    THEN [d EXCEPT !.data = [i \in DOMAIN d.data |->
                               [p \in DOMAIN d.columns |->
                                   IF d.index[i] = index /\ d.columns[p] = col
                                   THEN value ELSE d.data[i][p]]]]
    ELSE [d EXCEPT !.index = @ \o <<index>>,
                   !.data = @ \o <<[p \in DOMAIN d.columns |->
                                       IF d.columns[p] = col THEN value ELSE Null]>>]

\* lines 109-111, item after item
RECURSIVE UpdatedBy(_, _, _)
UpdatedBy(d, index, updates) ==
    IF updates = <<>> THEN d
    ELSE UpdatedBy(IF InColumns(d, Head(updates)[1])
                   THEN SetAt(d, index, Head(updates)[1], Head(updates)[2])
                   ELSE d,
                   index, Tail(updates))

update_row(d, index, updates) == [ret |-> TRUE, df |-> UpdatedBy(d, index, updates)]

(***************************************************************************)
(* csv_handler.py: calculate_total_costs.                                  *)
(***************************************************************************)
\* an entry of a numeric (float64) column
NumericCell(x) == IF x.k = "nan" THEN Null ELSE FloatVal(x)

\* q * u of two float64 entries; the operands are in hundredths and so is
\* the product, which is exact for the operands the model uses
Product(q, u) == IF FMul(q, u).k = "fin" THEN Fin(FMul(q, u).n \div 100) ELSE FMul(q, u)

\* df[col] = cells: the column is replaced, or appended when it is new
SetColumn(d, col, cells) ==
    IF InColumns(d, col)
    THEN [d EXCEPT !.data = [i \in DOMAIN d.data |->
                               [p \in DOMAIN d.columns |->
                                   IF d.columns[p] = col THEN cells[i] ELSE d.data[i][p]]]]
    ELSE [d EXCEPT !.columns = @ \o <<col>>,
                   !.data = [i \in DOMAIN d.data |-> d.data[i] \o <<cells[i]>>]]

\* a recomputation that fills in the totals that are null and keeps the rest
WithTotalsWhereNull(d, qs, us) ==
    SetColumn(SetColumn(SetColumn(d, quantity, [i \in DOMAIN qs |-> NumericCell(qs[i])]),
                        unit_cost, [i \in DOMAIN us |-> NumericCell(us[i])]),
              total_cost,
              [i \in DOMAIN qs |->
                  IF InColumns(d, total_cost) /\ notna(Column(d, total_cost)[i])
                  THEN Column(d, total_cost)[i]
                  ELSE NumericCell(Product(qs[i], us[i]))])

\* lines 133-135, qs and us being the two columns after pd.to_numeric
WithTotals(d, qs, us) ==
    SetColumn(SetColumn(SetColumn(d, quantity, [i \in DOMAIN qs |-> NumericCell(qs[i])]),
                        unit_cost, [i \in DOMAIN us |-> NumericCell(us[i])]),
              total_cost, [i \in DOMAIN qs |-> NumericCell(Product(qs[i], us[i]))])

\* the value returned and the dataset left in self.df
calculate_total_costs(d) ==
    IF InColumns(d, quantity) /\ InColumns(d, unit_cost)
    THEN [ret |-> TRUE,
          df |-> WithTotals(d, to_numeric(Column(d, quantity)), to_numeric(Column(d, unit_cost)))]
    ELSE [ret |-> FALSE, df |-> d]

(***************************************************************************)
(* csv_handler.py: get_rows_needing_completion.                            *)
(***************************************************************************)
\* self.df[col].isna() | (self.df[col] == "") for one cell
IsNaOrEmpty(v) == isna(v) \/ v = StrVal(<<>>)

\* df[mask].copy(): the rows numbered in kept, under their own labels
RowsOf(d, kept) ==
    [columns |-> d.columns,
     index |-> [k \in DOMAIN kept |-> d.index[kept[k]]],
     data |-> [k \in DOMAIN kept |-> d.data[kept[k]]]]

get_rows_needing_completion(d) ==
    RowsOf(d, Hits([i \in DOMAIN d.data |->
                      \E p \in DOMAIN d.columns :
                         d.columns[p] \in Range(ALL_COLUMNS) /\ IsNaOrEmpty(d.data[i][p])]))

\* csv_handler.get_missing_data_summary(): one entry per canonical column of
\* the dataset; the percentage in hundredths (truncated), nan for no rows
SummaryEntry(col, cells) ==
    LET missing_count == Cardinality({i \in DOMAIN cells : IsNaOrEmpty(cells[i])})
    IN  [column |-> col,
         missing_count |-> missing_count,
         total_count |-> Len(cells),
         missing_percentage |-> IF Len(cells) = 0 THEN NaN
                                ELSE Fin((10000 * missing_count) \div Len(cells)),
         is_required |-> col \in Range(REQUIRED_COLUMNS)]

SummaryOver(d, present) == [k \in DOMAIN present |-> SummaryEntry(present[k], Column(d, present[k]))]

get_missing_data_summary(d) == SummaryOver(d, SelectSeq(ALL_COLUMNS, LAMBDA c : InColumns(d, c)))

(***************************************************************************)
(* ui_components.py: the column configuration.                             *)
(***************************************************************************)
\* an optional list that stays the default one whatever is selected
OptionalDefault(required_columns) == OPTIONAL_COLUMNS

\* line 704
OptionalFor(required_columns) == SelectSeq(ALL_COLUMNS, LAMBDA c : c \notin Range(required_columns))

apply_column_configuration(ss, required_columns, optional_columns) ==
    [ss EXCEPT !.keys = @ \cup {"app_required_columns", "app_optional_columns", "app_all_columns"},
               !.app_required_columns = required_columns,
               !.app_optional_columns = optional_columns,
               !.app_all_columns = required_columns \o optional_columns]

(***************************************************************************)
(* Inputs of the model.                                                    *)
(***************************************************************************)
SeqsUpTo(S, n) == UNION {[1..k -> S] : k \in 0..n}

IsInjective(s) == \A i, j \in DOMAIN s : s[i] = s[j] => i = j

T_R1 == <<"R","1">>
T_C1 == <<"C","1">>
T_Resistor == <<"R","e","s","i","s","t","o","r">>
T_DigiKey == <<"D","i","g","i","-","K","e","y">>
T_abc == <<"a","b","c">>
T_10 == <<"1","0">>
T_5sp == <<" ","5"," ">>
T_nan == <<"n","a","n">>
T_inf == <<"i","n","f">>
T_ninf == <<"-","i","n","f">>
T_blank == <<" "," ">>

\* selections the operator can make in the "Required columns" multiselect
RequiredChoices == {<<part_number>>, <<supplier, part_number, description>>}

\* rows of the multi-row datasets, over part_number, description, supplier
DataColumns == <<part_number, description, supplier>>

RowPool ==
    { <<StrVal(T_R1), StrVal(T_Resistor), StrVal(T_DigiKey)>>,
      <<StrVal(T_R1), StrVal(T_blank), StrVal(T_DigiKey)>>,
      <<StrVal(T_C1), StrVal(T_Resistor), Null>>,
      <<StrVal(<<>>), StrVal(T_Resistor), StrVal(<<>>)>>,
      <<Null, StrVal(<<>>), Null>>,
      <<IntVal(10), StrVal(T_Resistor), StrVal(T_DigiKey)>>,
      <<FloatVal(Fin(1000)), Null, StrVal(T_DigiKey)>> }

RangeIndex(n) == [i \in 1..n |-> i - 1]

Frame(columns, data) == [columns |-> columns, index |-> RangeIndex(Len(data)), data |-> data]

Datasets == {Frame(DataColumns, data) : data \in SeqsUpTo(RowPool, MaxRows)}

\* single rows that exercise the numeric rules
QuantityValues ==
    { IntVal(10), IntVal(3), IntVal(0), IntVal(-1), IntVal(1), IntVal(10000), IntVal(50000),
      FloatVal(Fin(1000001)), FloatVal(Fin(50)), FloatVal(Fin(150)), FloatVal(PInf), FloatVal(NInf),
      StrVal(T_abc), StrVal(T_10), StrVal(T_5sp), StrVal(T_nan), StrVal(T_inf), StrVal(T_ninf),
      StrVal(<<>>), StrVal(T_blank), Null }

LeadTimeValues ==
    { IntVal(14), IntVal(-1), IntVal(365), IntVal(366), StrVal(T_abc), StrVal(T_nan), StrVal(T_inf), Null }

UnitCostValues ==
    { FloatVal(Fin(150)), FloatVal(Fin(-150)), IntVal(0), IntVal(10000), FloatVal(Fin(1000001)),
      IntVal(15000), FloatVal(PInf), FloatVal(NInf), StrVal(T_abc), StrVal(T_10), StrVal(T_nan),
      StrVal(T_inf), StrVal(<<>>), StrVal(T_blank), Null }

TotalCostValues ==
    { FloatVal(Fin(500)), FloatVal(Fin(-1)), IntVal(0), FloatVal(PInf), StrVal(T_abc), StrVal(T_nan),
      StrVal(<<>>), Null }

\* small operands for the cost cross-check: 3 x 0.10 against totals around 0.30
SmallQuantities == { IntVal(3), FloatVal(Fin(250)), StrVal(<<"3">>), StrVal(T_abc), StrVal(T_nan),
                     FloatVal(PInf), StrVal(<<>>), Null }
SmallUnitCosts == { FloatVal(Fin(10)), StrVal(<<"0",".","1","0">>), IntVal(0), IntVal(2),
                    StrVal(T_abc), StrVal(T_inf), Null }
SmallTotals == { FloatVal(Fin(30)), FloatVal(Fin(31)), FloatVal(Fin(29)), FloatVal(Fin(32)),
                 FloatVal(Fin(28)), FloatVal(Fin(25)), IntVal(5), IntVal(6), IntVal(0),
                 StrVal(<<"0",".","3">>), StrVal(T_abc), FloatVal(PInf), FloatVal(NInf), Null }

RowFrames ==
    {Frame(<<part_number, description, quantity, lead_time_days>>, <<<<pn, d, q, l>>>>) :
        pn \in {StrVal(T_R1)}, d \in {StrVal(T_Resistor), StrVal(<<>>)},
        q \in QuantityValues, l \in LeadTimeValues}
    \cup
    {Frame(<<part_number, unit_cost, total_cost>>, <<<<pn, u, t>>>>) :
        pn \in {StrVal(T_R1), StrVal(T_blank)}, u \in UnitCostValues, t \in TotalCostValues}
    \cup
    {Frame(<<quantity, unit_cost, total_cost>>, <<<<q, u, t>>>>) :
        q \in SmallQuantities, u \in SmallUnitCosts, t \in SmallTotals}

H_PartNumber == <<"P","a","r","t"," ","N","u","m","b","e","r">>
H_Qty == <<"Q","t","y">>

\* headers of uploaded files (the loader never yields an empty or repeated one)
HeaderPool ==
    { <<"P","a","r","t"," ","N","u","m","b","e","r">>,
      <<"Q","t","y">>,
      <<"D","e","s","c","r","i","p","t","i","o","n">>,
      <<"U","n","i","t"," ","P","r","i","c","e">>,
      <<"c","o","s","t">>,
      <<"p","a","r","t","-","n","u","m","b","e","r">>,
      <<"N","u","m","b","e","r">>,
      <<"L","e","a","d"," ","T","i","m","e">>,
      <<"x">>,
      <<"N","O","T","E","S">>,
      <<"M","y"," ","N","o","t","e","s">> }

HeaderLists == {h \in SeqsUpTo(HeaderPool, MaxHeaders) : IsInjective(h)}

HeaderFrames == {Frame(h, <<[i \in DOMAIN h |-> StrVal(T_R1)]>>) : h \in HeaderLists}

(***************************************************************************)
(* The state machine.                                                      *)
(***************************************************************************)
NoResult == [op |-> "none", i |-> 0, col |-> <<>>, out |-> <<>>]

\* pd.DataFrame()
EmptyFrame == [columns |-> <<>>, index |-> <<>>, data |-> <<>>]

\* d.empty: no column or no row
IsEmptyFrame(d) == d.columns = <<>> \/ d.data = <<>>

Pages == {"Upload & Process", "Review & Edit", "AI Optimization", "Analytics", "Export"}

\* the session after initialize_session_state (main.py lines 19-31) and the
\* first render of the sidebar
InitialSession ==
    [keys |-> {},
     current_page |-> "Upload & Process",
     file_uploaded |-> FALSE,
     columns_mapped |-> FALSE,
     current_df |-> EmptyFrame,
     custom_required_columns |-> <<>>, custom_optional_columns |-> <<>>,
     app_required_columns |-> <<>>, app_optional_columns |-> <<>>, app_all_columns |-> <<>>,
     show_column_config |-> FALSE]

InitWith(frames) ==
    /\ df \in frames
    /\ original_columns = df.columns
    /\ session_state = InitialSession
    /\ result = NoResult
    /\ calls = 0

\* the session right after one of the files was loaded (main.py lines 41-46)
InitLoaded(frames) ==
    /\ df \in frames
    /\ original_columns = df.columns
    /\ session_state = [InitialSession EXCEPT !.file_uploaded = TRUE]
    /\ result = NoResult
    /\ calls = 0

\* a validation that writes "" into the null cells of the row it checks
ValidateRowFilling(i) ==
    /\ result.op = "none"
    /\ i \in DOMAIN df.data
    /\ result' = [op |-> "validate_row", i |-> i, col |-> <<>>, out |-> validate_row(RowAt(df, i), df.index[i])]
    /\ df' = [df EXCEPT !.data[i] = [p \in DOMAIN @ |-> IF isna(@[p]) THEN StrVal(<<>>) ELSE @[p]]]
    /\ calls' = 0
    /\ UNCHANGED <<original_columns, session_state>>

\* validator.validate_row(row, idx) on row i of the dataset
ValidateRow(i) ==
    /\ result.op = "none"
    /\ i \in DOMAIN df.data
    /\ result' = [op |-> "validate_row", i |-> i, col |-> <<>>, out |-> validate_row(RowAt(df, i), df.index[i])]
    /\ calls' = 0
    /\ UNCHANGED <<df, original_columns, session_state>>

\* one rule called on its own, validator._validate_<column>(value, i, row), on
\* a value validate_row would pass to it
ValidateField(i, column) ==
    /\ result.op = "none"
    /\ i \in DOMAIN df.data
    /\ column \in Range(ALL_COLUMNS)
    /\ InIndex(RowAt(df, i), column) /\ IsScalarAt(RowAt(df, i), column)
    /\ LET value == Cell(RowAt(df, i), column)
       IN  /\ notna(value) /\ Strip(ToStr(value)) # <<>>
           /\ result' = [op |-> "validation_rule", i |-> i, col |-> column,
                         out |-> validation_rules(column, value, df.index[i], RowAt(df, i))]
    /\ calls' = 0
    /\ UNCHANGED <<df, original_columns, session_state>>

\* a validator that keeps its buckets between calls: the second report is
\* appended to the first
ValidateDataframeAccumulating ==
    /\ result.op \in {"none", "validate_dataframe"}
    /\ calls < MaxCalls
    /\ result' = [op |-> "validate_dataframe", i |-> 0, col |-> <<>>,
                  out |-> IF result.op = "none" THEN validate_dataframe(df)
                          ELSE [exc |-> validate_dataframe(df).exc,
                                errors |-> result.out.errors \o validate_dataframe(df).errors,
                                warnings |-> result.out.warnings \o validate_dataframe(df).warnings,
                                info |-> result.out.info \o validate_dataframe(df).info]]
    /\ calls' = calls + 1
    /\ UNCHANGED <<df, original_columns, session_state>>

\* validator.validate_dataframe(df)
ValidateDataframe ==
    /\ result.op \in {"none", "validate_dataframe"}
    /\ calls < MaxCalls
    /\ result' = [op |-> "validate_dataframe", i |-> 0, col |-> <<>>, out |-> validate_dataframe(df)]
    /\ calls' = calls + 1
    /\ UNCHANGED <<df, original_columns, session_state>>

\* validator.get_completion_priority(df)
GetCompletionPriority ==
    /\ result.op = "none"
    /\ result' = [op |-> "get_completion_priority", i |-> 0, col |-> <<>>, out |-> get_completion_priority(df)]
    /\ calls' = 0
    /\ UNCHANGED <<df, original_columns, session_state>>

\* csv_handler.get_column_mapping_suggestions()
GetColumnMappingSuggestions ==
    /\ result.op = "none"
    /\ result' = [op |-> "get_column_mapping_suggestions", i |-> 0, col |-> <<>>,
                  out |-> get_column_mapping_suggestions(original_columns)]
    /\ calls' = 0
    /\ UNCHANGED <<df, original_columns, session_state>>

\* the "Apply Changes" button of the column configuration; the rerun that
\* follows discards whatever the page had computed
ApplyChanges(required_columns) ==
    LET optional_columns == OptionalFor(required_columns)
        shown == [session_state EXCEPT
                    !.keys = @ \cup {"custom_required_columns", "custom_optional_columns",
                                     "show_column_config"},
                    !.custom_required_columns = required_columns,
                    !.custom_optional_columns = optional_columns,
                    !.show_column_config = FALSE]
    IN  /\ session_state' = apply_column_configuration(shown, required_columns, optional_columns)
        /\ result' = NoResult
        /\ calls' = 0
        /\ UNCHANGED <<df, original_columns>>

\* st.rerun() / the end of a script run: what the page computed is dropped
Rerun ==
    /\ result.op # "none"
    /\ result' = NoResult
    /\ calls' = 0
    /\ UNCHANGED <<df, original_columns, session_state>>

\* the "Configure Columns" button of the sidebar (lines 74-78): the panel is
\* toggled; when it opens, render_column_configuration seeds the custom lists
\* that are not there yet (lines 681-687) and the multiselect shows them
ConfigureColumns ==
    LET shown == ~("show_column_config" \in session_state.keys /\ session_state.show_column_config)
        seeded == [session_state EXCEPT
                     !.keys = @ \cup {"show_column_config", "custom_required_columns",
                                      "custom_optional_columns"},
                     !.custom_required_columns =
                         IF "custom_required_columns" \in session_state.keys THEN @ ELSE REQUIRED_COLUMNS,
                     !.custom_optional_columns =
                         OptionalFor(IF "custom_required_columns" \in session_state.keys
                                     THEN session_state.custom_required_columns ELSE REQUIRED_COLUMNS),
                     !.show_column_config = TRUE]
        hidden == [session_state EXCEPT !.keys = @ \cup {"show_column_config"},
                                        !.show_column_config = FALSE]
    IN  /\ session_state' = IF shown THEN seeded ELSE hidden
        /\ result' = NoResult
        /\ calls' = 0
        /\ UNCHANGED <<df, original_columns>>

PanelShown == "show_column_config" \in session_state.keys /\ session_state.show_column_config

\* the operator edits the "Required columns" multiselect of the open panel
\* (lines 694-717): the custom lists follow the selection
SelectRequired(required_columns) ==
    /\ PanelShown
    /\ session_state' = [session_state EXCEPT
                            !.custom_required_columns = required_columns,
                            !.custom_optional_columns = OptionalFor(required_columns)]
    /\ result' = NoResult
    /\ calls' = 0
    /\ UNCHANGED <<df, original_columns>>

\* the "Apply Changes" button of the open panel, on the selection it shows
ApplyShown ==
    /\ PanelShown
    /\ ApplyChanges(session_state.custom_required_columns)

\* the "Reset to Default" button (lines 730-735); on the rerun the panel is
\* rendered again and the custom lists follow what the multiselect then
\* holds, the defaults or the selection it had
ResetToDefault ==
    /\ PanelShown
    /\ \E selection \in {REQUIRED_COLUMNS, session_state.custom_required_columns} :
          session_state' = [session_state EXCEPT
                              !.custom_required_columns = selection,
                              !.custom_optional_columns = OptionalFor(selection)]
    /\ result' = NoResult
    /\ calls' = 0
    /\ UNCHANGED <<df, original_columns>>

\* the "Cancel" button (lines 737-740)
Cancel ==
    /\ PanelShown
    /\ session_state' = [session_state EXCEPT !.show_column_config = FALSE]
    /\ result' = NoResult
    /\ calls' = 0
    /\ UNCHANGED <<df, original_columns>>

Next ==
    \/ \E i \in 1..(MaxRows + 1) : ValidateRow(i)
    \/ ValidateDataframe
    \/ GetCompletionPriority
    \/ GetColumnMappingSuggestions
    \/ \E r \in RequiredChoices : ApplyChanges(r)
    \/ Rerun

Init == InitWith(Datasets)

Spec == Init /\ [][Next]_vars

InitRow == InitWith(RowFrames)

NextRow ==
    \/ Next
    \/ \E i \in 1..1, c \in Range(ALL_COLUMNS) : ValidateField(i, c)

SpecRow == InitRow /\ [][NextRow]_vars

InitMap == InitWith(HeaderFrames)

SpecMap == InitMap /\ [][Next]_vars

\* selections of the multiselect: none, one optional field, the defaults, a
\* reordered mix, every field
ConfigChoices ==
    {<<>>, <<supplier>>, REQUIRED_COLUMNS, <<supplier, part_number, description>>, ALL_COLUMNS}

ConfigDatasets == {d \in Datasets : Len(d.data) <= 1}

InitConfig == InitWith(ConfigDatasets)

NextConfig ==
    \/ \E i \in 1..1 : ValidateRow(i)
    \/ ValidateDataframe
    \/ GetCompletionPriority
    \/ ConfigureColumns
    \/ \E r \in ConfigChoices : SelectRequired(r)
    \/ ApplyShown
    \/ ResetToDefault
    \/ Cancel
    \/ Rerun

SpecConfig == InitConfig /\ [][NextConfig]_vars

\* uploaded files whose headers still are to be mapped: 0 to MaxRows - 1
\* rows, every cell a text of its own
RawCell(r, c) == StrVal(<<<<"a", "b", "c">>[c], <<"1", "2", "3", "4">>[r]>>)

RawColumnLists == { <<H_PartNumber, H_Qty, <<"x">>>>, <<H_PartNumber, quantity, notes>> }

RawFrames ==
    {Frame(cols, [r \in 1..n |-> [c \in DOMAIN cols |-> RawCell(r, c)]]) :
        cols \in RawColumnLists, n \in 0..(MaxRows - 1)}

\* the fields the operator maps, in the order of the mapping dict
MappedFields == <<part_number, description, quantity>>

\* what the selectboxes can return for a file with these headers
Mappings(columns) ==
    {[i \in DOMAIN MappedFields |-> <<MappedFields[i], h[i]>>] :
        h \in [DOMAIN MappedFields -> {<<>>} \cup Range(columns)]}

\* the "Apply Column Mapping" button of the upload page (main.py lines
\* 48-64): shown while a file is loaded and not yet mapped; a mapping with no
\* header chosen only gets a warning; the session's dataset becomes a copy of
\* the mapped one
ApplyColumnMapping ==
    /\ result.op = "none"
    /\ session_state.current_page = "Upload & Process"
    /\ session_state.file_uploaded /\ ~session_state.columns_mapped
    /\ \E column_mapping \in Mappings(original_columns) :
          /\ \E k \in DOMAIN column_mapping : column_mapping[k][2] # <<>>
          /\ df' = apply_column_mapping(df, column_mapping)
          /\ result' = [op |-> "apply_column_mapping", i |-> 0, col |-> <<>>,
                        out |-> [ret |-> TRUE, mapped_columns |-> column_mapping]]
    /\ session_state' = [session_state EXCEPT !.columns_mapped = TRUE, !.current_df = df']
    /\ calls' = 0
    /\ UNCHANGED original_columns

InitCsv == InitLoaded(RawFrames)

NextCsv ==
    \/ ApplyColumnMapping
    \/ \E i \in 1..MaxRows : ValidateRow(i)
    \/ ValidateDataframe
    \/ GetCompletionPriority
    \/ GetColumnMappingSuggestions
    \/ Rerun

SpecCsv == InitCsv /\ [][NextCsv]_vars

\* uploaded files for mapping collisions, one of them with a column that is
\* already spelled like a canonical field
CollideColumnLists == { <<H_PartNumber, description>>, <<H_PartNumber, H_Qty>> }

CollideFrames ==
    {Frame(cols, [r \in 1..n |-> [c \in DOMAIN cols |-> RawCell(r, c)]]) :
        cols \in CollideColumnLists, n \in 0..(MaxRows - 1)}

InitCollide == InitLoaded(CollideFrames)

SpecCollide == InitCollide /\ [][NextCsv]_vars

\* mapped datasets with cost columns: 0 to MaxRows - 1 rows of quantity,
\* unit_cost (or a text field in its place) and total_cost (or a text field)
CostRowPool ==
    { <<IntVal(3), FloatVal(Fin(10)), FloatVal(Fin(30))>>,
      <<IntVal(3), FloatVal(Fin(10)), FloatVal(Fin(500))>>,
      <<StrVal(<<"3">>), StrVal(<<"0",".","1","0">>), Null>>,
      <<StrVal(T_abc), FloatVal(Fin(10)), FloatVal(Fin(30))>>,
      <<FloatVal(Fin(250)), IntVal(2), StrVal(<<>>)>>,
      <<Null, IntVal(2), FloatVal(Fin(30))>>,
      <<FloatVal(PInf), IntVal(2), Null>>,
      <<IntVal(0), StrVal(T_nan), IntVal(5)>>,
      <<StrVal(T_blank), IntVal(2), IntVal(5)>> }

CostColumnLists ==
    { <<quantity, unit_cost, total_cost>>, <<quantity, unit_cost, notes>>,
      <<quantity, supplier, total_cost>> }

CostFrames ==
    {Frame(cols, data) : cols \in CostColumnLists, data \in SeqsUpTo(CostRowPool, MaxRows - 1)}

\* csv_handler.calculate_total_costs() on the handler's dataset
CalculateTotalCosts ==
    /\ result.op = "none"
    /\ df' = calculate_total_costs(df).df
    /\ result' = [op |-> "calculate_total_costs", i |-> 0, col |-> <<>>,
                  out |-> [ret |-> calculate_total_costs(df).ret]]
    /\ calls' = 0
    /\ UNCHANGED <<original_columns, session_state>>

\* csv_handler.get_rows_needing_completion()
GetRowsNeedingCompletion ==
    /\ result.op = "none"
    /\ result' = [op |-> "get_rows_needing_completion", i |-> 0, col |-> <<>>,
                  out |-> get_rows_needing_completion(df)]
    /\ calls' = 0
    /\ UNCHANGED <<df, original_columns, session_state>>

InitCost == InitWith(CostFrames)

NextCost ==
    \/ CalculateTotalCosts
    \/ GetRowsNeedingCompletion
    \/ \E i \in 1..MaxRows : ValidateRow(i)
    \/ ValidateDataframe
    \/ Rerun

SpecCost == InitCost /\ [][NextCost]_vars

\* datasets whose columns are not in canonical order, with and without the
\* required description column; the rows are given by field
OrderRowPool ==
    { [pn |-> StrVal(T_R1), d |-> StrVal(T_Resistor), q |-> IntVal(3),
       u |-> FloatVal(Fin(10)), t |-> FloatVal(Fin(30))],
      [pn |-> StrVal(<<>>), d |-> StrVal(<<>>), q |-> StrVal(T_abc),
       u |-> StrVal(T_abc), t |-> FloatVal(Fin(-100))],
      [pn |-> StrVal(<<"R">>), d |-> StrVal(<<"R","e","s">>), q |-> FloatVal(Fin(250)),
       u |-> IntVal(0), t |-> IntVal(5)],
      [pn |-> StrVal(<<"R">>), d |-> StrVal(T_Resistor), q |-> IntVal(3),
       u |-> FloatVal(Fin(-100)), t |-> FloatVal(Fin(30))],
      [pn |-> StrVal(T_R1), d |-> StrVal(T_Resistor), q |-> StrVal(<<>>),
       u |-> IntVal(2), t |-> Null] }

OrderColumnLists ==
    { <<total_cost, unit_cost, description, quantity, part_number>>,
      <<total_cost, unit_cost, quantity, part_number>> }

OrderCell(r, c) ==
    IF c = part_number THEN r.pn
    ELSE IF c = description THEN r.d
    ELSE IF c = quantity THEN r.q
    ELSE IF c = unit_cost THEN r.u
    ELSE r.t

OrderFrames ==
    {Frame(cols, [i \in DOMAIN rows |-> [k \in DOMAIN cols |-> OrderCell(rows[i], cols[k])]]) :
        cols \in OrderColumnLists, rows \in SeqsUpTo(OrderRowPool, MaxRows)}

InitOrder == InitWith(OrderFrames)

NextOrder ==
    \/ ValidateDataframe
    \/ \E i \in 1..MaxRows : ValidateRow(i)
    \/ Rerun

SpecOrder == InitOrder /\ [][NextOrder]_vars

\* datasets for the variance check: unit costs 3, 1, -1 have a standard
\* deviation of exactly twice their mean
VarianceCosts ==
    { IntVal(3), IntVal(1), IntVal(-1), IntVal(0), IntVal(20), StrVal(<<"1">>),
      StrVal(T_abc), FloatVal(PInf), Null }

VarianceFrames ==
    {Frame(<<part_number, unit_cost>>, [i \in DOMAIN us |-> <<StrVal(T_R1), us[i]>>]) :
        us \in SeqsUpTo(VarianceCosts, MaxRows)}
    \cup
    {Frame(<<part_number, supplier>>, [i \in DOMAIN us |-> <<StrVal(T_R1), us[i]>>]) :
        us \in SeqsUpTo({IntVal(3), IntVal(-1)}, MaxRows)}

InitVariance == InitWith(VarianceFrames)

SpecVariance == InitVariance /\ [][NextOrder]_vars

\* the cost cross-check called on row i alone (bom_validator.py line 104)
ValidateCostConsistency(i) ==
    /\ result.op = "none"
    /\ i \in DOMAIN df.data
    /\ result' = [op |-> "_validate_cost_consistency", i |-> i, col |-> <<>>,
                  out |-> _validate_cost_consistency(RowAt(df, i), df.index[i])]
    /\ calls' = 0
    /\ UNCHANGED <<df, original_columns, session_state>>

\* the dataset-level checks called alone (bom_validator.py line 60)
CheckDataConsistency ==
    /\ result.op = "none"
    /\ result' = [op |-> "_check_data_consistency", i |-> 0, col |-> <<>>,
                  out |-> _check_data_consistency(df)]
    /\ calls' = 0
    /\ UNCHANGED <<df, original_columns, session_state>>

\* rows whose cost operands are text that is no number, empty or blank
AdvisoryRowPool ==
    CostRowPool \cup
    { <<IntVal(3), StrVal(T_abc), FloatVal(Fin(30))>>,
      <<IntVal(3), StrVal(<<>>), FloatVal(Fin(30))>>,
      <<IntVal(3), IntVal(-1), StrVal(T_abc)>>,
      <<IntVal(3), StrVal(T_blank), IntVal(5)>> }

AdvisoryFrames ==
    {Frame(cols, data) : cols \in CostColumnLists, data \in SeqsUpTo(AdvisoryRowPool, MaxRows - 1)}

InitAdvisory == InitWith(AdvisoryFrames)

NextAdvisory ==
    \/ \E i \in 1..MaxRows : ValidateCostConsistency(i)
    \/ CheckDataConsistency
    \/ \E i \in 1..MaxRows : ValidateRow(i)
    \/ ValidateDataframe
    \/ Rerun

SpecAdvisory == InitAdvisory /\ [][NextAdvisory]_vars

\* single rows that exercise the part_number rule: lengths 1, 2, 50 and 51,
\* padded text, unusual characters, and numbers
Repeat(c, n) == [i \in 1..n |-> c]

PartNumberValues ==
    { StrVal(<<"R","1","0","0","1">>), StrVal(<<"R">>), StrVal(<<"#">>), StrVal(<<" ","R"," ">>),
      StrVal(<<" ","R","1"," ">>), StrVal(<<"R"," ","1">>), StrVal(<<"R","@","#","$","%">>),
      StrVal(<<"R","-","1","_","a",".","b">>), StrVal(Repeat("R", 50)), StrVal(Repeat("R", 51)),
      StrVal(Repeat("#", 51)), StrVal(Repeat("R", 49) \o <<"#">>),
      IntVal(5), IntVal(10), IntVal(-1), FloatVal(Fin(150)) }

PartFrames ==
    {Frame(<<part_number, description>>, <<<<pn, d>>>>) :
        pn \in PartNumberValues, d \in {StrVal(T_Resistor), StrVal(<<>>)}}

InitPart == InitWith(PartFrames)

SpecPart == InitPart /\ [][NextRow]_vars

\* csv_handler.update_row(index, updates), up to MaxCalls times in a row
UpdateRow(index, updates) ==
    /\ result.op \in {"none", "update_row"}
    /\ calls < MaxCalls
    /\ df' = update_row(df, index, updates).df
    /\ result' = [op |-> "update_row", i |-> index, col |-> <<>>,
                  out |-> [ret |-> update_row(df, index, updates).ret, updates |-> updates]]
    /\ calls' = calls + 1
    /\ UNCHANGED <<original_columns, session_state>>

\* datasets of 0 to MaxRows - 1 rows of text under canonical column names,
\* row labels from -1 to MaxRows - 1, and update dicts with fields that are
\* columns and fields that are not
UpdateFrames ==
    {Frame(cols, [r \in 1..n |-> [c \in DOMAIN cols |-> RawCell(r, c)]]) :
        cols \in {<<part_number, quantity, notes>>, <<part_number, description>>},
        n \in 0..(MaxRows - 1)}

UpdateLabels == (-1)..(MaxRows - 1)

UpdateDicts ==
    { <<>>, <<<<quantity, StrVal(<<"5">>)>>>>, <<<<supplier, StrVal(T_DigiKey)>>>>,
      <<<<notes, StrVal(<<>>)>>, <<quantity, StrVal(<<"5">>)>>>>,
      <<<<description, StrVal(T_Resistor)>>, <<<<"x">>, StrVal(<<"5">>)>>>> }

InitUpdate == InitWith(UpdateFrames)

NextUpdate ==
    \/ \E index \in UpdateLabels, updates \in UpdateDicts : UpdateRow(index, updates)
    \/ GetRowsNeedingCompletion

SpecUpdate == InitUpdate /\ [][NextUpdate]_vars

(***************************************************************************)
(* main.py: the pages of the application.  df is the dataset of the CSV    *)
(* handler, session_state.current_df the session's dataset.                *)
(***************************************************************************)
\* a file is chosen in the uploader while none is loaded (lines 41-46)
UploadFile(file) ==
    /\ session_state.current_page = "Upload & Process"
    /\ ~session_state.file_uploaded
    /\ df' = file
    /\ original_columns' = file.columns
    /\ session_state' = [session_state EXCEPT !.file_uploaded = TRUE]
    /\ result' = NoResult
    /\ calls' = 0

\* the radio of the sidebar (ui_components.py lines 23-30)
SelectPage(page) ==
    /\ page # session_state.current_page
    /\ session_state' = [session_state EXCEPT !.current_page = page]
    /\ result' = NoResult
    /\ calls' = 0
    /\ UNCHANGED <<df, original_columns>>

\* a Reset Session that forgets the upload and keeps the mapping flag
ResetSessionKeepingMapped ==
    /\ \E page \in {"Upload & Process", session_state.current_page} :
          session_state' = [session_state EXCEPT !.current_page = page, !.file_uploaded = FALSE]
    /\ result' = NoResult
    /\ calls' = 0
    /\ UNCHANGED <<df, original_columns>>

\* "Reset Session" (ui_components.py lines 51-55) and the rerun: the keys
\* current_page, file_uploaded and columns_mapped are deleted and set again
\* by initialize_session_state; the radio keeps its page or falls back to
\* the first one; the handler and current_df stay
ResetSession ==
    /\ \E page \in {"Upload & Process", session_state.current_page} :
          session_state' = [session_state EXCEPT !.current_page = page,
                                                 !.file_uploaded = FALSE,
                                                 !.columns_mapped = FALSE]
    /\ result' = NoResult
    /\ calls' = 0
    /\ UNCHANGED <<df, original_columns>>

\* the validation section of the upload page (lines 68-76); the summary is
\* computed when the validation has returned
ShowValidation ==
    /\ result.op = "none"
    /\ session_state.current_page = "Upload & Process"
    /\ session_state.columns_mapped
    /\ result' = [op |-> "upload_and_process_page", i |-> 0, col |-> <<>>,
                  out |-> [validation_results |-> validate_dataframe(session_state.current_df),
                           missing_summary |->
                               IF validate_dataframe(session_state.current_df).exc = "none"
                               THEN get_missing_data_summary(df) ELSE <<>>]]
    /\ calls' = 0
    /\ UNCHANGED <<df, original_columns, session_state>>

\* the cells the operator edits in the model, and what they type
EditColumns == {description}
EditValues == {StrVal(T_Resistor)}

\* full_df.loc[idx] = edited_df.loc[idx] for one edited cell
WithCell(d, i, col, value) ==
    [d EXCEPT !.data[i] = [p \in DOMAIN d.columns |-> IF d.columns[p] = col THEN value ELSE @[p]]]

\* a cell is edited in the data editor of the review page (lines 85-93,
\* ui_components.py lines 524-538)
EditCell(i, col, value) ==
    /\ session_state.current_page = "Review & Edit"
    /\ ~IsEmptyFrame(session_state.current_df)
    /\ i \in DOMAIN session_state.current_df.data
    /\ InColumns(session_state.current_df, col)
    /\ WithCell(session_state.current_df, i, col, value) # session_state.current_df
    /\ session_state' = [session_state EXCEPT !.current_df = WithCell(@, i, col, value)]
    /\ result' = NoResult
    /\ calls' = 0
    /\ UNCHANGED <<df, original_columns>>

\* "Recalculate Total Costs" (lines 95-101): the handler takes the session's
\* dataset and recomputes in place; on success the session gets the copy
RecalculateTotalCosts ==
    /\ session_state.current_page = "Review & Edit"
    /\ ~IsEmptyFrame(session_state.current_df)
    /\ df' = calculate_total_costs(session_state.current_df).df
    /\ session_state' = [session_state EXCEPT !.current_df = df']
    /\ result' = NoResult
    /\ calls' = 0
    /\ UNCHANGED original_columns

\* the AI page with the API configured (lines 106-157): the rows to complete
\* come from the handler, the priorities from the session's dataset
ShowAiOptimization ==
    /\ result.op = "none"
    /\ session_state.current_page = "AI Optimization"
    /\ ~IsEmptyFrame(session_state.current_df)
    /\ result' = [op |-> "ai_optimization_page", i |-> 0, col |-> <<>>,
                  out |-> [incomplete_rows |-> get_rows_needing_completion(df),
                           priorities |-> get_completion_priority(session_state.current_df)]]
    /\ calls' = 0
    /\ UNCHANGED <<df, original_columns, session_state>>

\* what batch_complete_bom can return (ai_optimizer.py lines 264-310): the
\* dataset with some of its blank cells filled in
Completed(d, filled) ==
    [d EXCEPT !.data = [i \in DOMAIN d.data |->
                          [p \in DOMAIN d.columns |->
                              IF <<i, p>> \in filled THEN StrVal(T_Resistor) ELSE d.data[i][p]]]]

Completions(d) ==
    {Completed(d, filled) :
        filled \in SUBSET {<<i, p>> \in (DOMAIN d.data) \X (DOMAIN d.columns) :
                              /\ d.columns[p] \in EditColumns
                              /\ isna(d.data[i][p]) \/ Strip(ToStr(d.data[i][p])) = <<>>}}

\* "Start Batch Completion" (lines 119-135), offered when the handler has
\* rows to complete
StartBatchCompletion ==
    /\ session_state.current_page = "AI Optimization"
    /\ ~IsEmptyFrame(session_state.current_df)
    /\ ~IsEmptyFrame(get_rows_needing_completion(df))
    /\ \E completed_df \in Completions(session_state.current_df) :
          session_state' = [session_state EXCEPT !.current_df = completed_df]
    /\ result' = NoResult
    /\ calls' = 0
    /\ UNCHANGED <<df, original_columns>>

\* the analytics page (lines 162-172)
ShowAnalytics ==
    /\ result.op = "none"
    /\ session_state.current_page = "Analytics"
    /\ ~IsEmptyFrame(session_state.current_df)
    /\ result' = [op |-> "analytics_page", i |-> 0, col |-> <<>>,
                  out |-> [missing_summary |-> get_missing_data_summary(df)]]
    /\ calls' = 0
    /\ UNCHANGED <<df, original_columns, session_state>>

\* files of one header and 0 to MaxRows - 1 rows
AppFiles ==
    {Frame(<<H_PartNumber>>, [r \in 1..n |-> <<RawCell(r, 1)>>]) : n \in 0..(MaxRows - 1)}

\* before any upload: the handler has no dataset (self.df = None)
InitApp ==
    /\ df = [columns |-> <<>>, index |-> <<>>, data |-> <<>>, none |-> TRUE]
    /\ original_columns = <<>>
    /\ session_state = InitialSession
    /\ result = NoResult
    /\ calls = 0

NextApp ==
    \/ \E file \in AppFiles : UploadFile(file)
    \/ ApplyColumnMapping
    \/ ShowValidation
    \/ \E page \in Pages : SelectPage(page)
    \/ \E i \in 1..MaxRows, col \in EditColumns, value \in EditValues : EditCell(i, col, value)
    \/ RecalculateTotalCosts
    \/ ShowAiOptimization
    \/ StartBatchCompletion
    \/ ShowAnalytics
    \/ ResetSession
    \/ Rerun

SpecApp == InitApp /\ [][NextApp]_vars

(***************************************************************************)
(* Properties.                                                             *)
(***************************************************************************)
ResultRow == RowAt(df, result.i)

\* the field is missing from the record: no such key, a null value, or a
\* value whose trimmed string form is empty
MissingFromRecord(row, f) ==
    \/ ~InIndex(row, f)
    \/ isna(Cell(row, f))
    \/ Strip(ToStr(Cell(row, f))) = <<>>

NamesField(issue, f) == f \in Range(issue.message.args)

\* the score get_completion_priority gave to the row labelled idx (0 when
\* the row is not listed)
ScoreOf(priorities, idx) ==
    IF \E k \in DOMAIN priorities : priorities[k][1] = idx
    THEN priorities[CHOOSE k \in DOMAIN priorities : priorities[k][1] = idx][3]
    ELSE 0

\* C1: for every record and every currently required field f that is missing
\* from it (key absent, value null, or trimmed string form empty),
\* validate_row returns at least one error whose message names f, and
\* get_completion_priority gives the row a score of at least 10.
C1_MissingRequiredReported ==
    /\ result.op = "validate_row" =>
        \A f \in Range(_get_required_columns) :
            MissingFromRecord(ResultRow, f) =>
                /\ result.out.exc = "none"
                /\ \E k \in DOMAIN result.out.errors : NamesField(result.out.errors[k], f)
    /\ result.op = "get_completion_priority" =>
        \A i \in DOMAIN df.data : \A f \in Range(_get_required_columns) :
            MissingFromRecord(RowAt(df, i), f) =>
                /\ result.out.exc = "none"
                /\ ScoreOf(result.out.priorities, df.index[i]) >= 10

IsNumericCell(row, c) ==
    /\ InIndex(row, c) /\ IsScalarAt(row, c)
    /\ notna(Cell(row, c))
    /\ ToFloat(Cell(row, c)).k = "fin"

CostOperandsNumeric(row) == \A c \in {quantity, unit_cost, total_cost} : IsNumericCell(row, c)

\* |total_cost - quantity * unit_cost| in ten-thousandths
CostGap(row) ==
    LET d == 100 * ToFloat(Cell(row, total_cost)).n
             - ToFloat(Cell(row, quantity)).n * ToFloat(Cell(row, unit_cost)).n
    IN  IF d < 0 THEN -d ELSE d

CostIssues(bucket) == SelectSeq(bucket, LAMBDA e : e.type = "cost_consistency")

DuplicateIssues(bucket) == SelectSeq(bucket, LAMBDA e : e.type = "duplicate_part")

NonBlank(v) == notna(v) /\ Strip(ToStr(v)) # <<>>

\* the warnings dups are, for the part_number column pn of the dataset, one
\* per occurrence after the first of each non-blank value, in row order
DuplicatesReported(pn, dups) ==
    /\ \A i \in DOMAIN pn : NonBlank(pn[i]) =>
        /\ Cardinality({k \in DOMAIN dups : SameKey(dups[k].value, pn[i])})
             = Cardinality({j \in DOMAIN pn : SameKey(pn[j], pn[i])}) - 1
        /\ Cardinality({k \in DOMAIN dups : dups[k].row = <<df.index[i]>>})
             = IF \E j \in 1..(i - 1) : SameKey(pn[j], pn[i]) THEN 1 ELSE 0
        /\ \A k \in DOMAIN dups : dups[k].row = <<df.index[i]>> =>
             /\ dups[k].value = pn[i]
             /\ dups[k].column = part_number
             /\ dups[k].message.args = <<ToStr(pn[i])>>
    /\ \A k, l \in DOMAIN dups : k < l => dups[k].row[1] < dups[l].row[1]

\* C3: for every dataset with a part_number column the duplicate check emits,
\* for each non-blank part_number value occurring k times, exactly k-1
\* warnings: one for every occurrence after the first, carrying that row's
\* index and the value, in row order; the first occurrence is never reported.
C3_DuplicateWarnings ==
    (result.op = "validate_dataframe" /\ result.out.exc = "none" /\ InColumns(df, part_number)) =>
        /\ DuplicateIssues(result.out.errors) = <<>>
        /\ DuplicateIssues(result.out.info) = <<>>
        /\ DuplicatesReported(Column(df, part_number), DuplicateIssues(result.out.warnings))

\* part_number is ["R1", "R1", "C1"] and the one warning is on row index 1
C3_Witness ==
    /\ result.op = "validate_dataframe"
    /\ InColumns(df, part_number)
    /\ Column(df, part_number) = <<StrVal(T_R1), StrVal(T_R1), StrVal(T_C1)>>
    /\ Len(DuplicateIssues(result.out.warnings)) = 1
    /\ DuplicateIssues(result.out.warnings)[1].row = <<1>>
    /\ DuplicateIssues(result.out.warnings)[1].value = StrVal(T_R1)

\* a header lowercased, with spaces and hyphens replaced by underscores
NormalizedHeader(h) == [k \in DOMAIN h |-> IF h[k] \in {" ", "-"} THEN "_" ELSE LowerCh(h[k])]

Suggestible(f, h) == IsSubstring(NormalizedHeader(h), f) \/ IsSubstring(f, NormalizedHeader(h))

SuggestionsFor(headers, out) ==
    /\ DOMAIN out = {f \in Range(ALL_COLUMNS) : \E i \in DOMAIN headers : Suggestible(f, headers[i])}
    /\ \A f \in DOMAIN out :
         \E i \in DOMAIN headers :
            /\ out[f] = headers[i]
            /\ Suggestible(f, headers[i])
            /\ \A j \in 1..(i - 1) : ~Suggestible(f, headers[j])
    /\ \A f \in DOMAIN out : out[f] # H_Qty
    /\ (headers # <<>> /\ headers[1] = H_PartNumber) =>
         (part_number \in DOMAIN out /\ out[part_number] = H_PartNumber)

\* C4: get_column_mapping_suggestions returns a mapping that contains the
\* canonical field f exactly when some normalized header (lowercased, spaces
\* and hyphens replaced by underscores) is a substring of f or f is a
\* substring of it, and maps f to the original spelling of the first such
\* header in input order; "Part Number" is suggested for part_number and
\* "Qty" for nothing.
C4_MappingSuggestions ==
    result.op = "get_column_mapping_suggestions" => SuggestionsFor(original_columns, result.out)

C4_Witness ==
    /\ result.op = "get_column_mapping_suggestions"
    /\ original_columns = <<H_Qty, H_PartNumber>>
    /\ DOMAIN result.out = {part_number, manufacturer_part_number}
    /\ result.out[part_number] = H_PartNumber

\* the position in the dataset of the row labelled idx
RowPosition(idx) == CHOOSE i \in DOMAIN df.index : df.index[i] = idx

SortedStable(priorities) ==
    \A k, l \in DOMAIN priorities : k < l =>
        /\ priorities[k][3] >= priorities[l][3]
        /\ priorities[k][3] = priorities[l][3] =>
             RowPosition(priorities[k][1]) < RowPosition(priorities[l][1])
        /\ (priorities[k][3] = 1 /\ priorities[l][3] = 10) => FALSE

\* C5: the list returned by get_completion_priority is sorted by score in
\* non-increasing order, and two rows with equal score appear in their
\* original dataset row order; a row of score 1 comes after a row of score
\* 10 whatever their positions in the dataset.
C5_SortedByScoreStable ==
    (result.op = "get_completion_priority" /\ result.out.exc = "none") =>
        SortedStable(result.out.priorities)

\* row 0 misses only an optional field, rows 1 and 2 a required one
C5_Witness ==
    /\ result.op = "get_completion_priority"
    /\ result.out.exc = "none"
    /\ Len(result.out.priorities) = 3
    /\ result.out.priorities[1][1] = 1 /\ result.out.priorities[1][3] = 10
    /\ result.out.priorities[2][1] = 2 /\ result.out.priorities[2][3] = 10
    /\ result.out.priorities[3][1] = 0 /\ result.out.priorities[3][3] = 1

MissingOf(row, cols) == SelectSeq(cols, LAMBDA c : MissingFromRecord(row, c))

\* the entry the row labelled idx must have when mr are its missing required
\* fields and mo its missing optional ones: none when both are empty
ExpectedEntry(priorities, idx, mr, mo) ==
    LET listed == {k \in DOMAIN priorities : priorities[k][1] = idx}
    IN  IF 10 * Len(mr) + Len(mo) > 0
        THEN /\ Cardinality(listed) = 1
             /\ \A k \in listed :
                  /\ priorities[k][3] = 10 * Len(mr) + Len(mo)
                  /\ priorities[k][2] = MissingPrefix \o Join(<<",", " ">>, mr \o mo)
        ELSE listed = {}

\* C6: for every row, get_completion_priority computes score = 10 x (number
\* of missing currently required fields) + 1 x (number of missing currently
\* optional fields); the row is listed exactly when its score is greater
\* than 0, and its label lists the missing fields, the required ones in
\* required-list order before the optional ones in optional-list order.
C6_ScoreAndLabel ==
    result.op = "get_completion_priority" =>
        /\ result.out.exc = "none"
        /\ \A i \in DOMAIN df.data :
             ExpectedEntry(result.out.priorities, df.index[i],
                           MissingOf(RowAt(df, i), _get_required_columns),
                           MissingOf(RowAt(df, i), _get_optional_columns))

RuleValue == Cell(ResultRow, result.col)

RuleNumber == ToFloat(RuleValue)

\* the outcome the quantity rule is to return for a parsed value (numbers in
\* hundredths; ValueError when the text does not parse; no comparison holds
\* for nan)
QuantityOutcome(x) ==
    IF x = ValueError THEN "errors"
    ELSE IF x.k = "nan" THEN "none"
    ELSE IF x = NInf THEN "errors"
    ELSE IF x = PInf THEN "warnings"
    ELSE IF x.n <= 0 THEN "errors"
    ELSE IF x.n % 100 # 0 /\ x.n > 100 THEN "warnings"
    ELSE IF x.n > 1000000 THEN "warnings"
    ELSE "none"

\* C8: for every present non-blank quantity value the quantity rule returns
\* the first matching outcome of: non-numeric -> error; value <= 0 -> error;
\* value fractional and > 1 -> warning; value > 10000 -> warning; otherwise
\* nothing (10000 gives no issue, 10000.01 a warning, 0 and -1 an error,
\* "abc" an error).
C8_QuantityRule ==
    (result.op = "validation_rule" /\ result.col = quantity) =>
        result.out.level = QuantityOutcome(RuleNumber)

NumericFields == {quantity, unit_cost, total_cost, lead_time_days}

\* the row holds, for field f, a non-blank value that is not a parsable number
Unparsable(row, f) ==
    /\ InIndex(row, f) /\ IsScalarAt(row, f)
    /\ NonBlank(Cell(row, f))
    /\ ToFloat(Cell(row, f)) = ValueError

FieldIssuesOf(bucket, f) ==
    SelectSeq(bucket, LAMBDA e : e.type = "field_validation" /\ e.column = f)

UnparsableIsError(row, out) ==
    \A f \in NumericFields : Unparsable(row, f) =>
        /\ FieldIssuesOf(out.errors, f) # <<>>
        /\ FieldIssuesOf(out.warnings, f) = <<>>

\* C9: validation never raises: for every cell value of quantity, unit_cost,
\* total_cost and lead_time_days (numbers, numeric strings, arbitrary text,
\* and spellings the float parser accepts such as 'nan' and 'inf')
\* validate_row returns its three buckets, and every non-blank value of
\* those fields that is not a parsable number yields an issue of severity
\* error for that field, never a warning and never an unhandled exception.
C9_ValidationNeverRaises ==
    result.op = "validate_row" =>
        /\ result.out.exc = "none"
        /\ UnparsableIsError(ResultRow, result.out)

\* the outcome the unit_cost rule is to return for a parsed value
UnitCostOutcome(x) ==
    IF x = ValueError THEN "errors"
    ELSE IF x.k = "nan" THEN "none"
    ELSE IF x = NInf THEN "errors"
    ELSE IF x = PInf THEN "warnings"
    ELSE IF x.n < 0 THEN "errors"
    ELSE IF x.n = 0 THEN "warnings"
    ELSE IF x.n > 1000000 THEN "warnings"
    ELSE "none"

\* C10: for every present non-blank unit_cost value the unit_cost rule
\* returns the first matching outcome of: non-numeric -> error; value < 0 ->
\* error; value = 0 -> warning; value > 10000 -> warning; otherwise nothing
\* (exactly 10000 gives no issue).
C10_UnitCostRule ==
    (result.op = "validation_rule" /\ result.col = unit_cost) =>
        result.out.level = UnitCostOutcome(RuleNumber)

\* the rule was called on exactly 10000 and returned nothing
C10_Witness ==
    /\ result.op = "validation_rule"
    /\ result.col = unit_cost
    /\ RuleValue = IntVal(10000)
    /\ result.out = None

\* the errors of the report that carry no row reference and name column f
ColumnLevelErrors(errors, f) ==
    {k \in DOMAIN errors : errors[k].row = <<>> /\ errors[k].column = f /\ NamesField(errors[k], f)}

AllCellsBlank(f) ==
    /\ InColumns(df, f)
    /\ df.data # <<>>
    /\ \A i \in DOMAIN df.data : MissingFromRecord(RowAt(df, i), f)

InValidDomain(f, x) ==
    /\ x # ValueError
    /\ IF f = quantity THEN FGt(x, 0) ELSE (FGt(x, 0) \/ FEq(x, 0))

\* every required column exists, every row has non-blank required fields and
\* every present numeric field is in its valid domain
CompleteAndValid(d, required_cols) ==
    /\ \A f \in Range(required_cols) : InColumns(d, f)
    /\ \A i \in DOMAIN d.data :
         /\ \A f \in Range(required_cols) : ~MissingFromRecord(RowAt(d, i), f)
         /\ \A f \in NumericFields :
              (InColumns(d, f) /\ NonBlank(Cell(RowAt(d, i), f))) =>
                  InValidDomain(f, ToFloat(Cell(RowAt(d, i), f)))

\* C12: for every dataset in which every currently required column exists,
\* every row has non-blank required fields, and every present numeric field
\* is in its valid domain (quantity > 0, unit_cost >= 0, total_cost >= 0,
\* lead_time_days >= 0), validate_dataframe returns an empty errors bucket.
C12_ValidDataNoErrors ==
    (result.op = "validate_dataframe" /\ CompleteAndValid(df, _get_required_columns)) =>
        /\ result.out.exc = "none"
        /\ result.out.errors = <<>>

\* C13: in every reachable state (before any configuration, and after any
\* sequence of column-configuration edits, Apply Changes, Reset to Default
\* and Cancel actions) the effective required list and the effective
\* optional list are disjoint and their union is exactly the 12 canonical
\* fields.
C13_SchemaPartition ==
    /\ Range(_get_required_columns) \cap Range(_get_optional_columns) = {}
    /\ Range(_get_required_columns) \cup Range(_get_optional_columns) = Range(ALL_COLUMNS)
    /\ Cardinality(Range(ALL_COLUMNS)) = 12
    /\ Len(_get_required_columns) + Len(_get_optional_columns) = 12

\* a configuration was applied, the panel reopened and reset to the defaults
C13_Witness ==
    /\ "app_required_columns" \in session_state.keys
    /\ _get_required_columns = <<supplier, part_number, description>>
    /\ PanelShown
    /\ session_state.custom_required_columns = REQUIRED_COLUMNS

\* the step is a call of apply_column_configuration
IsApply == \E r \in ConfigChoices : ApplyChanges(r)

\* what one step does to the schema the validator and the scorer read, and
\* which schema a call made in that step uses
SchemaStep ==
    /\ \A r \in ConfigChoices :
         ApplyChanges(r) => /\ _get_required_columns' = r
                            /\ _get_optional_columns' = OptionalFor(r)
    /\ ~IsApply => /\ _get_required_columns' = _get_required_columns
                   /\ _get_optional_columns' = _get_optional_columns
    /\ (result.op = "none" /\ result'.op = "validate_row") =>
         result'.out = RowWith(RowAt(df, result'.i), df.index[result'.i], _get_required_columns)
    /\ (result.op = "none" /\ result'.op = "validate_dataframe") =>
         result'.out = FrameWith(df, _get_required_columns)
    /\ (result.op = "none" /\ result'.op = "get_completion_priority") =>
         /\ result'.out.exc = "none"
         /\ \A i \in DOMAIN df.data :
              ExpectedEntry(result'.out.priorities, df.index[i],
                            SelectSeq(_get_required_columns, LAMBDA c : IsMissingIn(RowAt(df, i), c)),
                            SelectSeq(_get_optional_columns, LAMBDA c : IsMissingIn(RowAt(df, i), c)))

\* C14: the schema read by the validator and the scorer is a single
\* last-write-wins slot: before any apply_column_configuration call they use
\* the default lists, and after any sequence of calls every later
\* validate_row, validate_dataframe and get_completion_priority call uses
\* exactly the required and optional lists of the most recent call, both
\* from the same call.
C14_LastWriteWins ==
    /\ _get_required_columns = REQUIRED_COLUMNS
    /\ _get_optional_columns = OPTIONAL_COLUMNS
    /\ [][SchemaStep]_vars

\* <<supplier>> was applied and the panel, reopened, shows another selection;
\* the scorer counts the blank supplier of the row as a required field
C14_Witness ==
    /\ result.op = "get_completion_priority"
    /\ _get_required_columns = <<supplier>>
    /\ PanelShown
    /\ session_state.custom_required_columns = ALL_COLUMNS
    /\ df.data = << <<StrVal(T_C1), StrVal(T_Resistor), Null>> >>
    /\ Len(result.out.priorities) = 1
    /\ result.out.priorities[1][3] = 10

SameCells(d, e, p) == \A i \in DOMAIN d.data : e.data[i][p] = d.data[i][p]

\* the column of d headed h is the column of e headed f, cells unchanged
RenamedTo(d, e, h, f) ==
    \E p \in DOMAIN d.columns : d.columns[p] = h /\ e.columns[p] = f /\ SameCells(d, e, p)

\* f heads, in e, a column that d did not have, holding "" in every row
CreatedEmpty(d, e, f) ==
    \E p \in DOMAIN e.columns :
        /\ p > Len(d.columns)
        /\ e.columns[p] = f
        /\ \A i \in DOMAIN e.data : e.data[i][p] = StrVal(<<>>)

\* e is d after the mapping m, the entries honoured being those numbered in
\* honoured
MappingApplied(d, e, m, honoured) ==
    /\ e.index = d.index /\ Len(e.data) = Len(d.data)
    /\ \A f \in Range(ALL_COLUMNS) : InColumns(e, f)
    /\ \A k \in honoured : m[k][2] # <<>> => RenamedTo(d, e, m[k][2], m[k][1])
    /\ \A f \in Range(ALL_COLUMNS) :
         (\A p \in DOMAIN d.columns : e.columns[p] # f) => CreatedEmpty(d, e, f)
    /\ \A p \in DOMAIN d.columns :
         (\A k \in DOMAIN m : m[k][2] # d.columns[p]) =>
             (e.columns[p] = d.columns[p] /\ SameCells(d, e, p))

\* the entries whose header no later entry names again
LastOfHeader(m) == {k \in DOMAIN m : \A j \in DOMAIN m : (j > k) => m[j][2] # m[k][2]}

\* C15 as stated: after apply_column_mapping returns True every canonical
\* field is a column, each header the mapping assigns to a canonical field has
\* been renamed to that field with its cells unchanged, every canonical field
\* not obtained by a rename has been created with "" in every row, entries
\* with an empty header are ignored, and columns not named in the mapping
\* keep their name and values.
C15_MappingAsStated ==
    [][(result.op = "none" /\ result'.op = "apply_column_mapping") =>
            /\ result'.out.ret
            /\ MappingApplied(df, df', result'.out.mapped_columns,
                              DOMAIN result'.out.mapped_columns)]_vars

\* C15, amended: the same, for the headers that one field names; a header
\* that several fields name is renamed to the last of them in mapping order,
\* and the earlier ones are treated as unmapped.
C15_MappingLastWins ==
    [][(result.op = "none" /\ result'.op = "apply_column_mapping") =>
            /\ result'.out.ret
            /\ MappingApplied(df, df', result'.out.mapped_columns,
                              LastOfHeader(result'.out.mapped_columns))
            /\ \A k \in DOMAIN result'.out.mapped_columns \ LastOfHeader(result'.out.mapped_columns) :
                 \A p \in DOMAIN df.columns :
                    df.columns[p] = result'.out.mapped_columns[k][2] =>
                        df'.columns[p] # result'.out.mapped_columns[k][1]]_vars

\* part_number and quantity both name "Part Number": the column now is
\* quantity and part_number was created empty
C15_Witness ==
    /\ result.op = "apply_column_mapping"
    /\ result.out.mapped_columns[1] = <<part_number, H_PartNumber>>
    /\ result.out.mapped_columns[3] = <<quantity, H_PartNumber>>
    /\ original_columns = <<H_PartNumber, H_Qty, <<"x">>>>
    /\ df.columns[1] = quantity
    /\ df.data # <<>>
    /\ Cell(RowAt(df, 1), part_number) = StrVal(<<>>)

\* the number a cell denotes, nan when it is null or denotes none
NumberOf(v) == IF isna(v) \/ ToFloat(v) = ValueError THEN NaN ELSE ToFloat(v)

\* the cell t holds q x u: absent when an operand or the product is no number
HoldsProduct(t, q, u) ==
    IF q.k = "nan" \/ u.k = "nan" THEN isna(t)
    ELSE IF q.k = "fin" /\ u.k = "fin" THEN t.t = "float" /\ t.x.k = "fin" /\ 100 * t.x.n = q.n * u.n
    ELSE IF q.n = 0 \/ u.n = 0 THEN isna(t)
    ELSE t.t = "float" /\ t.x = (IF (q.n > 0) = (u.n > 0) THEN PInf ELSE NInf)

\* e is d with every total recomputed, and validating e reports no cost
\* inconsistency
TotalsRecomputed(d, e, report) ==
    /\ InColumns(e, total_cost) /\ Len(e.data) = Len(d.data) /\ e.index = d.index
    /\ \A i \in DOMAIN d.data :
         /\ HoldsProduct(Cell(RowAt(e, i), total_cost),
                         NumberOf(Cell(RowAt(d, i), quantity)),
                         NumberOf(Cell(RowAt(d, i), unit_cost)))
         /\ _validate_cost_consistency(RowAt(e, i), e.index[i]) = None
    /\ CostIssues(report.errors) = <<>>
    /\ CostIssues(report.warnings) = <<>>
    /\ CostIssues(report.info) = <<>>

\* C16: after calculate_total_costs returns True every row's total_cost
\* equals quantity x unit_cost of that row (and is absent when either operand
\* is not numeric), so that a validation run immediately afterwards emits no
\* cost-consistency warning for any row; when the quantity or unit_cost
\* column does not exist it returns False and leaves the dataset unchanged.
C16_TotalsRecomputed ==
    [][(result.op = "none" /\ result'.op = "calculate_total_costs") =>
            /\ result'.out.ret = (InColumns(df, quantity) /\ InColumns(df, unit_cost))
            /\ result'.out.ret => TotalsRecomputed(df, df', validate_dataframe(df'))
            /\ ~result'.out.ret => df' = df]_vars

\* the total 5.00 of 3 x 0.10 became 0.30, and the total of the row whose
\* quantity is "abc" became absent
C16_Witness ==
    /\ result.op = "calculate_total_costs"
    /\ result.out.ret
    /\ original_columns = <<quantity, unit_cost, total_cost>>
    /\ df.data = << <<FloatVal(Fin(300)), FloatVal(Fin(10)), FloatVal(Fin(30))>>,
                    <<Null, FloatVal(Fin(10)), Null>> >>

\* the row has an existing canonical column whose value is null or empty
\* after trimming
NeedsCompletion(d, i) ==
    \E p \in DOMAIN d.columns : d.columns[p] \in Range(ALL_COLUMNS) /\ ~NonBlank(d.data[i][p])

\* out holds exactly the rows of d that need completion, under their own
\* row labels and in their order
RowsNeedingCompletion(d, out) ==
    /\ out.columns = d.columns
    /\ \A i \in DOMAIN d.data :
         NeedsCompletion(d, i) <=>
             \E k \in DOMAIN out.index : out.index[k] = d.index[i] /\ out.data[k] = d.data[i]
    /\ \A k \in DOMAIN out.index : \E i \in DOMAIN d.index : out.index[k] = d.index[i]
    /\ \A k, l \in DOMAIN out.index : k < l => out.index[k] < out.index[l]

\* C17: get_rows_needing_completion returns exactly the rows that have at
\* least one existing canonical column whose value is missing, where missing
\* means null or an empty string after trimming, with their original row
\* indices in original order; a row with no missing canonical field is never
\* returned.
C17_RowsNeedingCompletion ==
    result.op = "get_rows_needing_completion" => RowsNeedingCompletion(df, result.out)

\* the check an issue comes from: the column check, the checks of one row,
\* the duplicate check, the variance check
PhaseOf(e) ==
    IF e.type = "missing_column" THEN 0
    ELSE IF e.type \in {"field_validation", "missing_required", "cost_consistency"} THEN 1
    ELSE IF e.type = "duplicate_part" THEN 2
    ELSE IF e.type = "cost_variance" THEN 3
    ELSE 4

\* within one row: field rules, required fields, cost cross-check
StageOf(e) ==
    IF e.type = "field_validation" THEN 0
    ELSE IF e.type = "missing_required" THEN 1
    ELSE 2

RowPositionOf(d, e) == CHOOSE i \in DOMAIN d.index : d.index[i] = e.row[1]

FieldPositionOf(e) == CHOOSE k \in DOMAIN ALL_COLUMNS : ALL_COLUMNS[k] = e.column

\* issue a may stand before issue b in a bucket of the report on d
MayPrecede(d, a, b) ==
    \/ PhaseOf(a) < PhaseOf(b)
    \/ PhaseOf(a) = PhaseOf(b) /\ PhaseOf(a) # 1
    \/ /\ PhaseOf(a) = 1 /\ PhaseOf(b) = 1
       /\ \/ RowPositionOf(d, a) < RowPositionOf(d, b)
          \/ /\ RowPositionOf(d, a) = RowPositionOf(d, b)
             /\ \/ StageOf(a) < StageOf(b)
                \/ StageOf(a) = StageOf(b) /\ StageOf(a) # 0
                \/ /\ StageOf(a) = 0 /\ StageOf(b) = 0
                   /\ FieldPositionOf(a) <= FieldPositionOf(b)

InCheckOrder(d, bucket) ==
    /\ \A i \in DOMAIN bucket : PhaseOf(bucket[i]) < 4
    /\ \A i, j \in DOMAIN bucket : i < j => MayPrecede(d, bucket[i], bucket[j])

\* C18: the report of validate_dataframe lists issues in check order: in the
\* errors bucket the missing-column errors precede the row errors; in every
\* bucket row-level issues are in ascending dataset row order, and within one
\* row field-rule issues (in canonical field order) precede required-field-
\* empty errors, which precede the cost-consistency warning; in the warnings
\* bucket row warnings precede duplicate warnings, which precede the
\* cost-variance warning.
C18_IssueOrder ==
    (result.op = "validate_dataframe" /\ result.out.exc = "none") =>
        /\ InCheckOrder(df, result.out.errors)
        /\ InCheckOrder(df, result.out.warnings)
        /\ InCheckOrder(df, result.out.info)

TypesAt(bucket, d, i) ==
    {bucket[k].type : k \in {k \in DOMAIN bucket : bucket[k].row = <<d.index[i]>>}}

\* a dataset without description whose columns are not in canonical order:
\* the errors hold the missing column, then the field errors and the empty
\* required field of the first row, then an error of the third row; the
\* warnings hold rule and cost warnings of two rows, then a duplicate, then
\* the variance warning
C18_Witness ==
    /\ result.op = "validate_dataframe" /\ result.out.exc = "none"
    /\ df.columns = <<total_cost, unit_cost, quantity, part_number>>
    /\ Len(df.data) = 3
    /\ result.out.errors[1].type = "missing_column"
    /\ TypesAt(result.out.errors, df, 1) = {"field_validation", "missing_required"}
    /\ Cardinality({k \in DOMAIN result.out.errors :
                        result.out.errors[k].row = <<df.index[1]>>
                        /\ result.out.errors[k].type = "field_validation"}) = 3
    /\ TypesAt(result.out.errors, df, 3) = {"field_validation"}
    /\ TypesAt(result.out.warnings, df, 2) = {"field_validation", "cost_consistency"}
    /\ TypesAt(result.out.warnings, df, 3) = {"field_validation", "cost_consistency", "duplicate_part"}
    /\ result.out.warnings[Len(result.out.warnings)].type = "cost_variance"

\* the duplicate warnings of the bucket that name the row labelled idx
DuplicatesAt(bucket, idx) ==
    {k \in DOMAIN bucket : bucket[k].type = "duplicate_part" /\ bucket[k].row = <<idx>>}

\* C19: blank part_number values are never reported as duplicates: no
\* duplicate warning is emitted for a row whose part_number is null, the
\* empty string or whitespace only, however many rows share that value.
C19_BlankNeverDuplicate ==
    (result.op = "validate_dataframe" /\ InColumns(df, part_number)) =>
        \A i \in DOMAIN df.data :
            ~NonBlank(Column(df, part_number)[i]) =>
                /\ DuplicatesAt(result.out.errors, df.index[i]) = {}
                /\ DuplicatesAt(result.out.warnings, df.index[i]) = {}
                /\ DuplicatesAt(result.out.info, df.index[i]) = {}

\* the issues of the three buckets of out that name field f and are of one
\* of the types
IssuesNaming(out, f, types) ==
    SelectSeq(out.errors \o out.warnings \o out.info,
              LAMBDA e : e.column = f /\ e.type \in types)

OneRuleIssuePerField(row, required_cols, out) ==
    \A f \in Range(ALL_COLUMNS) :
        /\ Len(IssuesNaming(out, f, {"field_validation"})) <= 1
        /\ MissingFromRecord(row, f) => IssuesNaming(out, f, {"field_validation"}) = <<>>
        /\ (f \in Range(required_cols) /\ InIndex(row, f) /\ MissingFromRecord(row, f)) =>
              /\ Len(IssuesNaming(out, f, {"field_validation", "missing_required"})) = 1
              /\ \E k \in DOMAIN out.errors :
                    /\ out.errors[k].type = "missing_required"
                    /\ out.errors[k].column = f
                    /\ out.errors[k].message =
                         [fmt |-> "Required field '{}' is empty", args |-> <<f>>]

\* C20: validate_row runs a field rule only when the field's value is present
\* and non-blank after trimming, and each rule returns only its first matching
\* outcome: for every row and every recognized field there is at most one
\* field-rule issue, a blank or null field yields no field-rule issue, and a
\* blank required field yields only the single "Required field ... is empty"
\* error.
C20_OneRuleIssuePerField ==
    (result.op = "validate_row" /\ result.out.exc = "none") =>
        OneRuleIssuePerField(ResultRow, _get_required_columns, result.out)

\* the quantity 10000.01 is both fractional and very large and gets the
\* fractional warning alone; the empty description gets its one error
C20_Witness ==
    /\ result.op = "validate_row" /\ result.out.exc = "none"
    /\ InIndex(ResultRow, quantity) /\ Cell(ResultRow, quantity) = FloatVal(Fin(1000001))
    /\ InIndex(ResultRow, description) /\ Cell(ResultRow, description) = StrVal(<<>>)
    /\ Len(IssuesNaming(result.out, quantity, {"field_validation"})) = 1
    /\ \E k \in DOMAIN result.out.warnings :
          /\ result.out.warnings[k].column = quantity
          /\ result.out.warnings[k].message.fmt = "Fractional quantity {} - is this intentional?"
    /\ Len(IssuesNaming(result.out, description, {"field_validation", "missing_required"})) = 1

RowLevel(bucket) ==
    SelectSeq(bucket, LAMBDA e : e.type \in {"field_validation", "missing_required", "cost_consistency"})

\* the issues of the rows of d, row after row, as validate_row gives them
\* for one bucket; a row whose validation raises contributes nothing
RECURSIVE RowsBucket(_, _, _)
RowsBucket(d, level, i) ==
    IF i > Len(d.data) THEN <<>>
    ELSE (IF validate_row(RowAt(d, i), d.index[i]).exc # "none" THEN <<>>
          ELSE IF level = "errors" THEN validate_row(RowAt(d, i), d.index[i]).errors
          ELSE IF level = "warnings" THEN validate_row(RowAt(d, i), d.index[i]).warnings
          ELSE validate_row(RowAt(d, i), d.index[i]).info)
         \o RowsBucket(d, level, i + 1)

\* every check of the run has left its issues in the report out
AllChecksReported(d, required_cols, out) ==
    /\ out.exc = "none"
    /\ \A c \in Range(required_cols) :
          ~InColumns(d, c) => Cardinality(ColumnLevelErrors(out.errors, c)) = 1
    /\ RowLevel(out.errors) = RowsBucket(d, "errors", 1)
    /\ RowLevel(out.warnings) = RowsBucket(d, "warnings", 1)
    /\ RowLevel(out.info) = RowsBucket(d, "info", 1)
    /\ \A i \in DOMAIN d.data :
          /\ validate_row(RowAt(d, i), d.index[i]).exc = "none"
          /\ \A c \in Range(required_cols) :
                (InColumns(d, c) /\ ~NonBlank(Cell(RowAt(d, i), c))) =>
                    \E k \in DOMAIN out.errors :
                        /\ out.errors[k].type = "missing_required"
                        /\ out.errors[k].column = c
                        /\ out.errors[k].row = <<d.index[i]>>
    /\ InColumns(d, part_number) =>
          \A i \in DOMAIN d.data :
              (NonBlank(Column(d, part_number)[i])
               /\ \E j \in 1..(i - 1) : SameKey(Column(d, part_number)[j], Column(d, part_number)[i]))
              => DuplicatesAt(out.warnings, d.index[i]) # {}

\* C21: no check short-circuits the run: the report of validate_dataframe is
\* the concatenation of the missing-column check, the validate_row result of
\* every row, the duplicate check and the cost-variance check; an issue found
\* for one field, row or check never suppresses an issue of another.
C21_NoShortCircuit ==
    result.op = "validate_dataframe" => AllChecksReported(df, _get_required_columns, result.out)

VarianceIssues(bucket) == SelectSeq(bucket, LAMBDA e : e.type = "cost_variance")

RECURSIVE SumOver(_, _)
SumOver(f, S) ==
    IF S = {} THEN 0
    ELSE LET i == CHOOSE j \in S : TRUE IN f[i] + SumOver(f, S \ {i})

\* the sample standard deviation of the numbers xs[i], i in I, is greater than
\* twice their mean; with n numbers of sum S this is
\* sum (n x - S)^2 > 4 (n - 1) S^2, or a negative mean
SpreadExceeds(xs, I, n, S) ==
    /\ n >= 2
    /\ \/ S < 0
       \/ SumOver([i \in I |-> (n * xs[i].n - S) * (n * xs[i].n - S)], I) > 4 * (n - 1) * S * S

VarianceExpected(d) ==
    /\ InColumns(d, unit_cost)
    /\ LET xs == [i \in DOMAIN d.data |-> NumberOf(Cell(RowAt(d, i), unit_cost))]
           I == {i \in DOMAIN xs : xs[i].k # "nan"}
       IN  /\ \A i \in I : xs[i].k = "fin"
           /\ SpreadExceeds(xs, I, Cardinality(I), SumOver([i \in I |-> xs[i].n], I))

\* C22: the cost-variance check emits at most one warning per dataset, with
\* no row reference, and emits it exactly when the unit_cost column exists and
\* the sample standard deviation (n-1 denominator) of the unit_cost values
\* that parse as numbers is strictly greater than twice their mean; values
\* that do not parse are excluded from both statistics.
C22_CostVariance ==
    (result.op = "validate_dataframe" /\ result.out.exc = "none") =>
        /\ VarianceIssues(result.out.errors) = <<>>
        /\ VarianceIssues(result.out.info) = <<>>
        /\ Len(VarianceIssues(result.out.warnings)) = (IF VarianceExpected(df) THEN 1 ELSE 0)
        /\ \A k \in DOMAIN result.out.warnings :
              result.out.warnings[k].type = "cost_variance" =>
                  result.out.warnings[k].row = <<>> /\ result.out.warnings[k].column = unit_cost

\* unit costs -1, "abc", 3: the numbers -1 and 3 have mean 1 and standard
\* deviation 2.83, and the one warning is there
C22_Witness ==
    /\ result.op = "validate_dataframe" /\ result.out.exc = "none"
    /\ InColumns(df, unit_cost)
    /\ Column(df, unit_cost) = <<IntVal(-1), StrVal(T_abc), IntVal(3)>>
    /\ Len(VarianceIssues(result.out.warnings)) = 1

\* one of the three cost operands of the row is absent, null, blank or text
\* that is no number
CostOperandUnusable(row) ==
    \E f \in {quantity, unit_cost, total_cost} : MissingFromRecord(row, f) \/ Unparsable(row, f)

Advisory(bucket) == SelectSeq(bucket, LAMBDA e : e.type \in {"cost_consistency", "cost_variance"})

\* C23: the advisory cross-checks never produce an error-severity issue: for
\* every row in which any of quantity, unit_cost or total_cost is absent,
\* blank or non-numeric, the cost-consistency check emits nothing and raises
\* nothing; and non-numeric unit_cost cells never make the cost-variance
\* check emit an error or raise.
C23_AdvisoryNeverErrors ==
    /\ result.op = "_validate_cost_consistency" =>
          /\ result.out.level \in {"none", "warnings"}
          /\ CostOperandUnusable(ResultRow) => result.out.level = "none"
    /\ result.op = "_check_data_consistency" =>
          \A k \in DOMAIN result.out :
              result.out[k].type \in {"duplicate_part", "cost_variance"}
    /\ (result.op = "validate_row" /\ result.out.exc = "none") =>
          /\ Advisory(result.out.errors) = <<>>
          /\ CostOperandUnusable(ResultRow) =>
                Advisory(result.out.warnings) = <<>> /\ Advisory(result.out.info) = <<>>
    /\ (result.op = "validate_dataframe" /\ result.out.exc = "none") =>
          /\ Advisory(result.out.errors) = <<>>
          /\ \A i \in DOMAIN df.data : CostOperandUnusable(RowAt(df, i)) =>
                \A k \in DOMAIN result.out.warnings :
                    result.out.warnings[k].type = "cost_consistency"
                        => result.out.warnings[k].row # <<df.index[i]>>

\* the cross-check was called on a row whose unit_cost is "abc" next to a
\* quantity of 3 and a total of 0.30, and returned nothing
C23_Witness ==
    /\ result.op = "_validate_cost_consistency"
    /\ df.columns = <<quantity, unit_cost, total_cost>>
    /\ ResultRow.values = <<IntVal(3), StrVal(T_abc), FloatVal(Fin(30))>>
    /\ result.out.level = "none"

\* entry k of the mapping names a header that another entry names too
Colliding(m, k) == m[k][2] # <<>> /\ \E j \in DOMAIN m : j # k /\ m[j][2] = m[k][2]

\* the file d has a column headed f that the mapping m assigns to no field,
\* and e still has it, cells unchanged
KeptFromFile(d, e, m, f) ==
    \E p \in DOMAIN d.columns :
        /\ d.columns[p] = f
        /\ \A j \in DOMAIN m : m[j][2] # f
        /\ e.columns[p] = f /\ SameCells(d, e, p)

\* C24 as stated: when a mapping assigns the same header to two or more
\* canonical fields, the header is renamed to the colliding field that comes
\* last in the mapping's iteration order, every other colliding field is
\* created as a new column holding "" in every row, and the operation returns
\* True.
C24_CollisionAsStated ==
    [][(result.op = "none" /\ result'.op = "apply_column_mapping") =>
            /\ result'.out.ret
            /\ \A k \in DOMAIN result'.out.mapped_columns :
                  Colliding(result'.out.mapped_columns, k) =>
                      IF k \in LastOfHeader(result'.out.mapped_columns)
                      THEN RenamedTo(df, df', result'.out.mapped_columns[k][2],
                                     result'.out.mapped_columns[k][1])
                      ELSE CreatedEmpty(df, df', result'.out.mapped_columns[k][1])]_vars

\* C24, amended: the same, except that a colliding field other than the last
\* is not created when the file already has a column of that name which the
\* mapping leaves unrenamed: that column is kept with its values.
C24_CollisionLastWins ==
    [][(result.op = "none" /\ result'.op = "apply_column_mapping") =>
            /\ result'.out.ret
            /\ \A k \in DOMAIN result'.out.mapped_columns :
                  Colliding(result'.out.mapped_columns, k) =>
                      IF k \in LastOfHeader(result'.out.mapped_columns)
                      THEN RenamedTo(df, df', result'.out.mapped_columns[k][2],
                                     result'.out.mapped_columns[k][1])
                      ELSE IF KeptFromFile(df, df', result'.out.mapped_columns,
                                           result'.out.mapped_columns[k][1])
                      THEN ~CreatedEmpty(df, df', result'.out.mapped_columns[k][1])
                      ELSE CreatedEmpty(df, df', result'.out.mapped_columns[k][1])]_vars

\* description and quantity both name "Part Number" in a file that has a
\* description column: the header now is quantity, the description column
\* still holds the file's values and part_number was created empty
C24_Witness ==
    /\ result.op = "apply_column_mapping"
    /\ result.out.mapped_columns =
          <<<<part_number, <<>>>>, <<description, H_PartNumber>>, <<quantity, H_PartNumber>>>>
    /\ original_columns = <<H_PartNumber, description>>
    /\ df.columns[1] = quantity /\ df.columns[2] = description
    /\ Len(df.data) = 2
    /\ df.data[1][2] = RawCell(1, 2)
    /\ Cell(RowAt(df, 1), part_number) = StrVal(<<>>)

UsualCharacters == Range(UPPER) \cup Range(LOWER) \cup Range(DIGITS) \cup {"-", "_", "."}

\* the message the part_number rule owes the trimmed text v, "" for none
PartNumberMessage(v) ==
    IF Len(v) < 2 THEN "Part number '{}' seems too short"
    ELSE IF Len(v) > 50 THEN "Part number '{}' seems too long"
    ELSE IF \E i \in DOMAIN v : v[i] \notin UsualCharacters
         THEN "Part number '{}' contains unusual characters"
    ELSE ""

PartNumberOutcome(out, v) ==
    IF PartNumberMessage(v) = "" THEN out.level = "none"
    ELSE out.level = "warnings" /\ out.fmt = PartNumberMessage(v) /\ out.args = <<v>>

\* C25: for every present non-blank part_number value (trimmed) the rule
\* returns the first matching outcome of: length < 2, warning "too short";
\* length > 50, warning "too long"; a character outside letters, digits, "-",
\* "_" and ".", warning "unusual characters"; otherwise nothing.  The severity
\* is always warning, and a one-character value with an unusual character is
\* reported as too short.
C25_PartNumberRule ==
    /\ (result.op = "validation_rule" /\ result.col = part_number) =>
          PartNumberOutcome(result.out, Strip(ToStr(Cell(ResultRow, part_number))))
    /\ (result.op = "validate_row" /\ result.out.exc = "none"
          /\ InIndex(ResultRow, part_number) /\ NonBlank(Cell(ResultRow, part_number))) =>
          /\ FieldIssuesOf(result.out.errors, part_number) = <<>>
          /\ FieldIssuesOf(result.out.info, part_number) = <<>>
          /\ Len(FieldIssuesOf(result.out.warnings, part_number))
               = (IF PartNumberMessage(Strip(ToStr(Cell(ResultRow, part_number)))) = "" THEN 0 ELSE 1)
          /\ \A k \in DOMAIN FieldIssuesOf(result.out.warnings, part_number) :
                FieldIssuesOf(result.out.warnings, part_number)[k].message.fmt
                    = PartNumberMessage(Strip(ToStr(Cell(ResultRow, part_number))))

\* the rule was called on "#" and called it too short
C25_Witness ==
    /\ result.op = "validation_rule" /\ result.col = part_number
    /\ Cell(ResultRow, part_number) = StrVal(<<"#">>)
    /\ result.out = [level |-> "warnings", fmt |-> "Part number '{}' seems too short",
                     args |-> <<<<"#">>>>]

ReadOnlyCalls == {"validate_dataframe", "validate_row", "get_completion_priority"}

\* C26: validate_dataframe, validate_row and get_completion_priority are
\* read-only: after any of them returns, the dataset (columns, row indices and
\* every cell value) and the effective schema (required and optional lists)
\* are exactly what they were before the call.
C26_ReadOnly ==
    [][(result'.op \in ReadOnlyCalls /\ result.op \in {"none", result'.op}) =>
            /\ df'.columns = df.columns /\ df'.index = df.index /\ df'.data = df.data
            /\ (_get_required_columns)' = _get_required_columns
            /\ (_get_optional_columns)' = _get_optional_columns]_vars

\* a row with a null cell was validated under a configured schema
C26_Witness ==
    /\ result.op = "validate_row"
    /\ "app_required_columns" \in session_state.keys
    /\ \E p \in DOMAIN ResultRow.values : isna(ResultRow.values[p])
    /\ result.out.exc = "none" /\ result.out.errors # <<>>

\* the value the dict u gives field c, if it gives one
Given(u, c) == {u[k][2] : k \in {j \in DOMAIN u : u[j][1] = c}}

\* e is d with exactly the cells (index, c), c a field of u and a column of
\* d, set to the values of u
OnlyCellsUpdated(d, e, index, u) ==
    /\ e.columns = d.columns
    /\ e.index = d.index
    /\ Len(e.data) = Len(d.data)
    /\ \A i \in DOMAIN d.data : \A p \in DOMAIN d.columns :
          IF d.index[i] = index /\ Given(u, d.columns[p]) # {}
          THEN e.data[i][p] \in Given(u, d.columns[p])
          ELSE e.data[i][p] = d.data[i][p]

\* C28: update_row(index, updates) changes only the cells (index, c) for the
\* fields c of updates that are columns of the dataset, setting each to the
\* given value; fields that are no columns are ignored, every other cell is
\* unchanged, and the set of rows and the set of columns are the same after
\* the call as before it, for every index value.
C28_UpdateRowFrame ==
    [][result'.op = "update_row" =>
            /\ result'.out.ret
            /\ OnlyCellsUpdated(df, df', result'.i, result'.out.updates)]_vars

\* C29: after apply_column_mapping returns True no two columns of the dataset
\* have the same name: each canonical field names exactly one column, for
\* every mapping and every set of original headers.
C29_UniqueColumns ==
    (result.op = "apply_column_mapping" /\ result.out.ret) =>
        /\ \A p, q \in DOMAIN df.columns : df.columns[p] = df.columns[q] => p = q
        /\ \A f \in Range(ALL_COLUMNS) :
              Cardinality({p \in DOMAIN df.columns : df.columns[p] = f}) = 1

SummaryPages == {"upload_and_process_page", "ai_optimization_page", "analytics_page"}

\* C27: whenever the application computes the missing-data summary or the
\* rows-needing-completion list from the CSV handler (upload, AI optimization
\* and analytics pages), the handler's dataset has the same rows and cell
\* values as the session's current dataset.
C27_HandlerInSync ==
    (result.op \in SummaryPages
     /\ (result.op = "upload_and_process_page" => result.out.validation_results.exc = "none")) =>
        /\ df.columns = session_state.current_df.columns
        /\ df.index = session_state.current_df.index
        /\ df.data = session_state.current_df.data

\* C30: in every reachable session state columns_mapped implies
\* file_uploaded, and validate_dataframe is invoked on the session's current
\* dataset only in states where a column mapping has been applied to it
\* (the flag is set and the dataset has every canonical column); this holds
\* after any sequence of upload, apply-mapping, page navigation and Reset
\* Session actions.
C30_MappedImpliesUploaded ==
    /\ session_state.columns_mapped => session_state.file_uploaded
    /\ result.op = "upload_and_process_page" =>
          /\ session_state.columns_mapped
          /\ \A f \in Range(ALL_COLUMNS) : InColumns(session_state.current_df, f)

\* a file of one row was uploaded and mapped, and the upload page validated
\* the session's dataset, which lacks required values
C30_Witness ==
    /\ result.op = "upload_and_process_page"
    /\ session_state.columns_mapped /\ session_state.file_uploaded
    /\ Len(session_state.current_df.data) = 1
    /\ Len(original_columns) = 1
    /\ result.out.validation_results.exc = "none"
    /\ result.out.validation_results.errors # <<>>
====
